---- MODULE Spec2Model ----
(***************************************************************************)
(* LinkedIn post analytics scraper: core/scraper.py (export parser, text   *)
(* fallback, record assembly, batch loop) and the consumer of the records  *)
(* in gui.py.  Page texts, sheet cells, URLs and counters are strings;     *)
(* regular expressions of the source are operators over strings.           *)
(* Non-ASCII characters of the source's literals are written in ASCII.     *)
(***************************************************************************)
EXTENDS Integers, Sequences, FiniteSets, TLC

VARIABLES
    urls,           \* scrape_urls: the input list
    pc,             \* position of the batch / of scrape_post / of the consumer
    i,              \* scrape_urls: loop index (1-based, as enumerate(start=1))
    records,        \* scrape_urls: records appended so far
    result,         \* scrape_post: the record being assembled
    a_url,          \* scrape_post: a_url ("" stands for None)
    page,           \* the page the browser shows (post page, then analytics page)
    download,       \* the export file intercepted by expect_download
    trail,          \* browser steps taken for the current post, in order
    delays,         \* number of inter-post time.sleep(self.delay) calls
    gidx,           \* gui: index of the next record to consume
    success_count,  \* gui: success_count
    files,          \* gui: files written
    counters_read,  \* gui: indices of records whose counters were read
    web,            \* what the site serves in this run: post pages, analytics
                    \* pages and export files
    op,             \* pure-function runs: which function is applied
    arg,            \* pure-function runs: the input
    ret             \* pure-function runs: the output

vars == << urls, pc, i, records, result, a_url, page, download, trail,
           delays, gidx, success_count, files, counters_read, web, op, arg, ret >>

scrapeVars == << urls, pc, i, records, result, a_url, page, download,
                 trail, delays, gidx, success_count, files, counters_read, web >>

pureVars == << op, arg, ret >>

(***************************************************************************)
(* Strings                                                                 *)
(***************************************************************************)
Digits == {"0", "1", "2", "3", "4", "5", "6", "7", "8", "9"}

Separators == {".", ","}

Whitespace == {" ", "\n", "\t", "\r"}

Max(a, b) == IF a >= b THEN a ELSE b

Min(a, b) == IF a <= b THEN a ELSE b

\* s[p] as a one-character string, "" outside the string
CharAt(s, p) == IF p >= 1 /\ p <= Len(s) THEN SubSeq(s, p, p) ELSE ""

\* s[p:] of Python, 1-based
From(s, p) == IF p > Len(s) THEN "" ELSE SubSeq(s, Max(p, 1), Len(s))

\* s[:n] of Python
Take(s, n) == SubSeq(s, 1, Min(Max(n, 0), Len(s)))

\* t occurs in s at position p
PrefixAt(s, p, t) ==
    /\ p >= 1
    /\ p + Len(t) - 1 <= Len(s)
    /\ SubSeq(s, p, p + Len(t) - 1) = t

\* Python: t in s
Contains(s, t) == \E p \in 1..(Len(s) - Len(t) + 1) : PrefixAt(s, p, t)

\* Python: s.startswith(t)
StartsWith(s, t) == PrefixAt(s, 1, t)

\* first position of t in s, 0 when absent
IndexOf(s, t) ==
    IF Contains(s, t)
    THEN CHOOSE p \in 1..(Len(s) - Len(t) + 1) :
            /\ PrefixAt(s, p, t)
            /\ \A q \in 1..(p - 1) : ~PrefixAt(s, q, t)
    ELSE 0

IsDigit(c) == c \in Digits

\* the characters of the class [\d\.,]
IsNumChar(c) == c \in Digits \cup Separators

\* Python: s.isdigit()
IsDigitStr(s) == Len(s) > 0 /\ \A p \in 1..Len(s) : IsDigit(CharAt(s, p))

\* end of the longest run of characters of class cls starting at p (p-1 when none)
RECURSIVE RunEnd(_, _, _)
RunEnd(s, p, cls) ==
    IF p <= Len(s) /\ CharAt(s, p) \in cls THEN RunEnd(s, p + 1, cls) ELSE p - 1

\* Python: s.strip()
RECURSIVE LStrip(_)
LStrip(s) == IF Len(s) > 0 /\ CharAt(s, 1) \in Whitespace THEN LStrip(From(s, 2)) ELSE s

RECURSIVE RStrip(_)
RStrip(s) ==
    IF Len(s) > 0 /\ CharAt(s, Len(s)) \in Whitespace
    THEN RStrip(Take(s, Len(s) - 1))
    ELSE s

Strip(s) == RStrip(LStrip(s))

\* Python: s.rstrip("/")
RECURSIVE RStripSlash(_)
RStripSlash(s) ==
    IF Len(s) > 0 /\ CharAt(s, Len(s)) = "/" THEN RStripSlash(Take(s, Len(s) - 1)) ELSE s

UpperCase == << "A", "B", "C", "D", "E", "F", "G", "H", "I", "J", "K", "L", "M",
                "N", "O", "P", "Q", "R", "S", "T", "U", "V", "W", "X", "Y", "Z" >>

LowerCase == << "a", "b", "c", "d", "e", "f", "g", "h", "i", "j", "k", "l", "m",
                "n", "o", "p", "q", "r", "s", "t", "u", "v", "w", "x", "y", "z" >>

LowerChar(c) ==
    IF \E k \in 1..26 : UpperCase[k] = c
    THEN LowerCase[CHOOSE k \in 1..26 : UpperCase[k] = c]
    ELSE c

\* Python: s.lower()
RECURSIVE Lower(_)
Lower(s) ==
    IF Len(s) = 0 THEN ""
    ELSE IF Len(s) = 1 THEN LowerChar(s)
    ELSE Lower(Take(s, Len(s) \div 2)) \o Lower(From(s, Len(s) \div 2 + 1))

\* s with the characters at the positions of drop removed
RECURSIVE RemoveAt(_, _, _)
RemoveAt(s, p, drop) ==
    IF p > Len(s) THEN ""
    ELSE (IF p \in drop THEN "" ELSE CharAt(s, p)) \o RemoveAt(s, p + 1, drop)

(***************************************************************************)
(* _fill_stats_from_text                                                   *)
(***************************************************************************)
\* re.sub(r"[.,](?=\d{3}(?!\d))", "", s): lines 501 and 503
StripGrouping(s) ==
    RemoveAt(s, 1, { p \in 1..Len(s) :
        /\ CharAt(s, p) \in Separators
        /\ IsDigit(CharAt(s, p + 1))
        /\ IsDigit(CharAt(s, p + 2))
        /\ IsDigit(CharAt(s, p + 3))
        /\ ~IsDigit(CharAt(s, p + 4)) })

\* re.sub(r"[.,](?=\d{{3}}(?!\d))", "", s) of after(): the pattern is a plain raw
\* string, so "{{3}}" is not an escaped "{3}": it reads one digit, "{" three
\* times, "}", and then no digit
StripGroupingAfter(s) ==
    RemoveAt(s, 1, { p \in 1..Len(s) :
        /\ CharAt(s, p) \in Separators
        /\ IsDigit(CharAt(s, p + 1))
        /\ PrefixAt(s, p + 2, "{{{}")
        /\ ~IsDigit(CharAt(s, p + 6)) })

\* a match of  label \n+ [\d\.,]+  starts at p (anchored: ^ under re.MULTILINE)
LabelMatchAt(text, p, label, anchored) ==
    /\ PrefixAt(text, p, label)
    /\ anchored => (p = 1 \/ CharAt(text, p - 1) = "\n")
    /\ CharAt(text, p + Len(label)) = "\n"
    /\ IsNumChar(CharAt(text, RunEnd(text, p + Len(label), {"\n"}) + 1))

HasLabelMatch(text, label, anchored) ==
    \E p \in 1..Len(text) : LabelMatchAt(text, p, label, anchored)

\* group(1) of re.search(label \n+ ([\d\.,]+), text): leftmost match, greedy group
LabelGroup(text, label, anchored) ==
    LET p == CHOOSE q \in 1..Len(text) :
                /\ LabelMatchAt(text, q, label, anchored)
                /\ \A r \in 1..(q - 1) : ~LabelMatchAt(text, r, label, anchored)
        b == RunEnd(text, p + Len(label), {"\n"}) + 1
    IN  SubSeq(text, b, RunEnd(text, b, Digits \cup Separators))

\* after() without re.MULTILINE: the label is found on the first line only
after_first_line(text, label) ==
    IF text /= "" /\ LabelMatchAt(text, 1, label, TRUE)
    THEN StripGroupingAfter(LabelGroup(text, label, TRUE))
    ELSE ""

\* the local function after(label) of _fill_stats_from_text
after(text, label) ==
    IF HasLabelMatch(text, label, TRUE)
    THEN StripGroupingAfter(LabelGroup(text, label, TRUE))
    ELSE ""

\* _fill_stats_from_text(result, text): result is updated in place
FillStatsFromText(rec, text) ==
    LET r1 == IF HasLabelMatch(text, "Scoperta", FALSE)
              THEN [rec EXCEPT !.impressions =
                        StripGrouping(LabelGroup(text, "Scoperta", FALSE))]
              ELSE rec
        r2 == IF HasLabelMatch(text, "Impressioni", FALSE)
              THEN [r1 EXCEPT !.unique_views =
                        StripGrouping(LabelGroup(text, "Impressioni", FALSE))]
              ELSE r1
    IN  [r2 EXCEPT !.reactions = after(text, "Reazioni"),
                   !.comments  = after(text, "Commenti"),
                   !.reposts   = after(text, "Diffusioni post"),
                   !.saves     = after(text, "Salvataggi"),
                   !.sends     = after(text, "Invii su LinkedIn")]

(***************************************************************************)
(* Spreadsheets as pandas reads them                                       *)
(***************************************************************************)
\* a cell read with dtype=str: a string, or NaN for an empty cell
Cell(s) == [na |-> FALSE, s |-> s]

NaN == [na |-> TRUE, s |-> ""]

\* str(x) of a cell value
StrOf(c) == IF c.na THEN "nan" ELSE c.s

RECURSIVE MaxWidth(_)
MaxWidth(rows) ==
    IF rows = << >> THEN 0 ELSE Max(Len(Head(rows)), MaxWidth(Tail(rows)))

\* pd.read_excel pads every row with NaN to the width of the widest row
PadRows(rows, w) ==
    [ r \in 1..Len(rows) |->
        [ c \in 1..w |-> IF c <= Len(rows[r]) THEN rows[r][c] ELSE NaN ] ]

\* pd.read_excel(..., header=None, dtype=str)
ReadExcelNoHeader(rows) ==
    [ ncols |-> MaxWidth(rows), rows |-> PadRows(rows, MaxWidth(rows)) ]

\* pd.read_excel(..., header=0, dtype=str): the first row names the columns
ReadExcelHeader(rows) ==
    [ ncols |-> MaxWidth(rows),
      rows  |-> IF rows = << >> THEN << >> ELSE Tail(PadRows(rows, MaxWidth(rows))) ]

\* a dict as a function from its keys; d.update(e)
Update(d, e) ==
    [ k \in DOMAIN d \cup DOMAIN e |-> IF k \in DOMAIN e THEN e[k] ELSE d[k] ]

EmptyDict == [ k \in {} |-> "" ]

(***************************************************************************)
(* pct_str                                                                 *)
(***************************************************************************)
RECURSIVE StrToNat(_)
StrToNat(s) ==
    IF Len(s) = 0 THEN 0
    ELSE 10 * StrToNat(Take(s, Len(s) - 1))
         + (CHOOSE d \in 0..9 : ToString(d) = CharAt(s, Len(s)))

\* the strings float() reads that the model covers: digits, or digits "." and
\* at most three digits (so that the value times 100 has one decimal at most)
IsDecimal(s) ==
    LET dot == IndexOf(s, ".")
    IN  IF dot = 0 THEN IsDigitStr(s)
        ELSE /\ IsDigitStr(Take(s, dot - 1))
             /\ IsDigitStr(From(s, dot + 1))
             /\ Len(s) - dot <= 3

\* tenths of a percent of a decimal string: "0.275" is 275
Tenths(s) ==
    LET dot  == IndexOf(s, ".")
        frac == IF dot = 0 THEN "" ELSE From(s, dot + 1)
        whole == IF dot = 0 THEN s ELSE Take(s, dot - 1)
        pad  == frac \o SubSeq("000", 1, 3 - Len(frac))
    IN  1000 * StrToNat(whole) + StrToNat(pad)

\* pct_str(val): f"{float(val)*100:.1f}%"; a value that is no number is passed
\* through; float("nan") of an empty cell formats as "nan%"
pct_str(c) ==
    IF c.na THEN "nan%"
    ELSE IF IsDecimal(c.s)
         THEN ToString(Tenths(c.s) \div 10) \o "." \o ToString(Tenths(c.s) % 10) \o "%"
         ELSE c.s

(***************************************************************************)
(* parse_linkedin_export                                                   *)
(***************************************************************************)
\* kv[label.lower()] = value: a dict keeps the position of the first insertion
\* of a key and the value of the last
RECURSIVE KvPut(_, _, _)
KvPut(kv, k, v) ==
    IF kv = << >> THEN << [k |-> k, v |-> v] >>
    ELSE IF Head(kv).k = k THEN << [k |-> k, v |-> v] >> \o Tail(kv)
         ELSE << Head(kv) >> \o KvPut(Tail(kv), k, v)

\* a cell reader that also removes the grouping separators of the value
CellTextNormalized(row, c) ==
    IF row[c].na THEN "" ELSE StripGrouping(Strip(StrOf(row[c])))

\* str(row.iloc[c]).strip() if pd.notna(row.iloc[c]) else ""
CellText(row, c) == IF row[c].na THEN "" ELSE Strip(StrOf(row[c]))

\* lines 114-119: the label -> value dict of the performance sheet
RECURSIVE BuildKv(_, _)
BuildKv(rows, kv) ==
    IF rows = << >> THEN kv
    ELSE LET label == CellText(Head(rows), 1)
             value == CellText(Head(rows), 2)
         IN  BuildKv(Tail(rows),
                     IF label /= "" /\ label /= "nan"
                     THEN KvPut(kv, Lower(label), value)
                     ELSE kv)

\* the inner loop of get(): the first entry of kv whose key contains k
FirstKvMatch(kv, k) ==
    LET low == Lower(k)
        hit == { n \in 1..Len(kv) : Contains(kv[n].k, low) }
    IN  IF hit = {} THEN 0 ELSE CHOOSE n \in hit : \A m \in hit : n <= m

\* a get() that returns the first entry of kv whose key contains any of keys
get_any_key(kv, keys) ==
    LET hit == { n \in 1..Len(kv) :
                   \E k \in 1..Len(keys) : Contains(kv[n].k, Lower(keys[k])) }
    IN  IF hit = {} THEN ""
        ELSE LET n == CHOOSE h \in hit : \A m \in hit : h <= m
             IN  IF kv[n].v /= "nan" THEN kv[n].v ELSE ""

\* get(keys), lines 121-126
RECURSIVE get(_, _)
get(kv, keys) ==
    IF keys = << >> THEN ""
    ELSE LET n == FirstKvMatch(kv, Head(keys))
         IN  IF n /= 0
             THEN (IF kv[n].v /= "nan" THEN kv[n].v ELSE "")
             ELSE get(kv, Tail(keys))

\* a scan whose sentinel rows open their section without closing the other
ScanRowKeepsOther(st, row) ==
    LET label == IF row[1].na THEN "" ELSE Lower(Strip(StrOf(row[1])))
        entry == [label |-> Strip(StrOf(row[1])), val |-> CellText(row, 2)]
    IN  IF Contains(label, "reazioni in evidenza")
        THEN [st EXCEPT !.reaz_section = TRUE]
        ELSE IF Contains(label, "commenti in evidenza")
        THEN [st EXCEPT !.comm_section = TRUE]
        ELSE [st EXCEPT
                !.reaz_rows = IF st.reaz_section /\ label /= ""
                              THEN Append(@, entry) ELSE @,
                !.comm_rows = IF st.comm_section /\ label /= ""
                              THEN Append(@, entry) ELSE @]

\* lines 144-161: the scan of the two highlighted sections; st is the state
\* [reaz_section, comm_section, reaz_rows, comm_rows]
ScanRow(st, row) ==
    LET label == IF row[1].na THEN "" ELSE Lower(Strip(StrOf(row[1])))
        entry == [label |-> Strip(StrOf(row[1])), val |-> CellText(row, 2)]
    IN  IF Contains(label, "reazioni in evidenza")
        THEN [st EXCEPT !.reaz_section = TRUE, !.comm_section = FALSE]
        ELSE IF Contains(label, "commenti in evidenza")
        THEN [st EXCEPT !.comm_section = TRUE, !.reaz_section = FALSE]
        ELSE [st EXCEPT
                !.reaz_rows = IF st.reaz_section /\ label /= ""
                              THEN Append(@, entry) ELSE @,
                !.comm_rows = IF st.comm_section /\ label /= ""
                              THEN Append(@, entry) ELSE @]

RECURSIVE ScanSections(_, _)
ScanSections(rows, st) ==
    IF rows = << >> THEN st ELSE ScanSections(Tail(rows), ScanRow(st, Head(rows)))

ScanStart ==
    [reaz_section |-> FALSE, comm_section |-> FALSE,
     reaz_rows |-> << >>, comm_rows |-> << >>]

\* section_val(rows, keyword), lines 163-167
RECURSIVE section_val(_, _)
section_val(rows, keyword) ==
    IF rows = << >> THEN ""
    ELSE IF /\ Contains(Lower(Head(rows).label), Lower(keyword))
            /\ Head(rows).val /= ""
            /\ Head(rows).val /= "nan"
         THEN Head(rows).val
         ELSE section_val(Tail(rows), keyword)

\* lines 128-174: the fields read from the performance sheet
PerformanceFields(df_r) ==
    LET kv == BuildKv(df_r.rows, << >>)
        st == ScanSections(df_r.rows, ScanStart)
    IN  [ post_url_export  |-> get(kv, << "url post", "post url" >>),
          post_date        |-> get(kv, << "data di pubblicazione", "publication date" >>),
          post_time        |-> get(kv, << "ora di pubblicazione", "publication time" >>),
          impressions      |-> get(kv, << "impressioni", "impressions" >>),
          unique_views     |-> get(kv, << "utenti raggiunti", "unique viewers", "reach" >>),
          profile_visits   |-> get(kv, << "visitatori del profilo", "profile visitors" >>),
          followers_gained |-> get(kv, << "follower acquisiti", "followers gained" >>),
          reactions        |-> get(kv, << "reazioni", "reactions" >>),
          comments         |-> get(kv, << "commenti", "comments" >>),
          reposts          |-> get(kv, << "diffusioni", "reposts", "reshares" >>),
          saves            |-> get(kv, << "salvataggi", "saves" >>),
          sends            |-> get(kv, << "invii", "sends" >>),
          reactions_top_role     |-> section_val(st.reaz_rows, "qualifica"),
          reactions_top_location |-> section_val(st.reaz_rows, "localit"),
          reactions_top_industry |-> section_val(st.reaz_rows, "settore"),
          comments_top_role      |-> section_val(st.comm_rows, "qualifica"),
          comments_top_location  |-> section_val(st.comm_rows, "localit"),
          comments_top_industry  |-> section_val(st.comm_rows, "settore") ]

\* a match that reads "^azienda" as the plain substring "azienda"
CategoryContains(c, category_kw) ==
    IF c.na THEN FALSE
    ELSE IF StartsWith(category_kw, "^")
         THEN Contains(Lower(c.s), From(category_kw, 2))
         ELSE Contains(Lower(c.s), category_kw)

\* str.contains(category_kw, na=False) on the lower-cased category: the keyword
\* is a regular expression, "^azienda" anchors at the start of the category
CategoryMatches(c, category_kw) ==
    IF c.na THEN FALSE
    ELSE IF StartsWith(category_kw, "^")
         THEN StartsWith(Lower(c.s), From(category_kw, 2))
         ELSE Contains(Lower(c.s), category_kw)

RECURSIVE SelectRows(_, _)
SelectRows(rows, category_kw) ==
    IF rows = << >> THEN << >>
    ELSE (IF CategoryMatches(Head(rows)[1], category_kw) THEN << Head(rows) >> ELSE << >>)
         \o SelectRows(Tail(rows), category_kw)

\* lines 186-191: the parts of the rows kept by head(n)
RECURSIVE DemoParts(_)
DemoParts(rows) ==
    IF rows = << >> THEN << >>
    ELSE LET val == Strip(StrOf(Head(rows)[2]))
         IN  (IF val /= "" /\ val /= "nan"
              THEN << val \o " (" \o pct_str(Head(rows)[3]) \o ")" >>
              ELSE << >>) \o DemoParts(Tail(rows))

\* " | ".join(parts)
RECURSIVE Join(_, _)
Join(parts, sep) ==
    IF parts = << >> THEN ""
    ELSE IF Len(parts) = 1 THEN parts[1]
         ELSE parts[1] \o sep \o Join(Tail(parts), sep)

TopN == 3

\* a top_demo that takes head(n) of the table before it selects the category
top_demo_head_first(df_d, category_kw) ==
    Join(DemoParts(SelectRows(SubSeq(df_d.rows, 1, Min(TopN, Len(df_d.rows))),
                              category_kw)), " | ")

\* top_demo(category_kw, n=3), lines 183-192
top_demo(df_d, category_kw) ==
    LET sub == SelectRows(df_d.rows, category_kw)
    IN  Join(DemoParts(SubSeq(sub, 1, Min(TopN, Len(sub)))), " | ")

\* lines 194-199
DemographicFields(df_d) ==
    [ demo_seniority    |-> top_demo(df_d, "anzianit"),
      demo_role         |-> top_demo(df_d, "qualifica"),
      demo_industry     |-> top_demo(df_d, "settore"),
      demo_company_size |-> top_demo(df_d, "dimensioni azienda"),
      demo_location     |-> top_demo(df_d, "localit"),
      demo_company      |-> top_demo(df_d, "^azienda") ]

\* the first sheet name whose lower-cased form contains one of kws, 0 when none
SheetByName(names, kws) ==
    LET hit == { n \in 1..Len(names) : \E k \in kws : Contains(Lower(names[n]), k) }
    IN  IF hit = {} THEN 0 ELSE CHOOSE n \in hit : \A m \in hit : n <= m

\* rendimento_key, lines 100-103
RendimentoKey(names) ==
    LET n == SheetByName(names, {"rendimento", "performance"})
    IN  IF n /= 0 THEN n ELSE 1

\* demo_key, lines 104-107; 0 stands for None
DemoKey(names) ==
    LET n == SheetByName(names, {"demograf", "demographic"})
    IN  IF n /= 0 THEN n ELSE IF Len(names) > 1 THEN 2 ELSE 0

ParseError(msg) == [ parse_error |-> msg ]

\* lines 97-199 with the workbook open: both sheets are read before any field
\* is stored; an exception leaves what result held at that point
ParseWorkbook(xlsx) ==
    LET rk == RendimentoKey(xlsx.names)
        dk == DemoKey(xlsx.names)
    IN  IF ~xlsx.sheets[rk].readable \/ (dk /= 0 /\ ~xlsx.sheets[dk].readable)
        THEN ParseError("Unable to read workbook: could not read worksheet")
        ELSE
        LET df_r == ReadExcelNoHeader(xlsx.sheets[rk].rows)
        IN  IF df_r.rows /= << >> /\ df_r.ncols < 2
            THEN ParseError("single positional indexer is out-of-bounds")
            ELSE
            LET perf == PerformanceFields(df_r)
            IN  IF dk = 0 THEN perf
                ELSE LET df_d == ReadExcelHeader(xlsx.sheets[dk].rows)
                     IN  IF df_d.ncols < 3
                         THEN Update(perf, ParseError("index out of bounds for axis 0"))
                         ELSE Update(perf, DemographicFields(df_d))

\* a parser that indexes the second sheet without the length test of line 106
parse_requires_demo(xlsx) ==
    IF ~xlsx.valid THEN ParseError("File is not a zip file")
    ELSE IF Len(xlsx.names) < 2 THEN ParseError("list index out of range")
    ELSE ParseWorkbook(xlsx)

\* a parser whose try block starts after the workbook is opened: the exception
\* of pd.ExcelFile leaves the function
parse_opens_before_try(xlsx) ==
    IF ~xlsx.valid THEN [ raised |-> "File is not a zip file" ]
    ELSE ParseWorkbook(xlsx)

\* parse_linkedin_export(xlsx_path): one try block around the whole body, the
\* except clause adds parse_error to the fields stored so far
parse_linkedin_export(xlsx) ==
    IF ~xlsx.valid THEN ParseError("File is not a zip file")
    ELSE ParseWorkbook(xlsx)

(***************************************************************************)
(* extract_post_text_from_post_page                                        *)
(***************************************************************************)
\* the bullets of the class [U+2022 U+00B7], written "*" and "+"
Bullets == {"*", "+"}

\* the characters of the class [U+2026 .], the ellipsis written "_"
EllipsisChars == {".", "_"}

NotNewline(s) == { CharAt(s, p) : p \in 1..Len(s) } \ {"\n"}

\* Python: s.split("\n")
RECURSIVE SplitLines(_)
SplitLines(s) ==
    LET nl == IndexOf(s, "\n")
    IN  IF nl = 0 THEN << s >>
        ELSE << Take(s, nl - 1) >> \o SplitLines(From(s, nl + 1))

\* re.sub of a literal pattern: every non-overlapping occurrence, left to right
RECURSIVE ReplaceAll(_, _, _)
ReplaceAll(s, pat, rep) ==
    LET p == IndexOf(s, pat)
    IN  IF p = 0 THEN s
        ELSE Take(s, p - 1) \o rep \o ReplaceAll(From(s, p + Len(pat)), pat, rep)

\* the position after the line that holds position p, 0 when the line has no "\n"
AfterLine(s, p) ==
    LET e == RunEnd(s, p, NotNewline(s))
    IN  IF CharAt(s, e + 1) = "\n" THEN e + 2 ELSE 0

\* (?:[^\n]*\n){0,n} from position p: as many whole lines as there are, n at most
RECURSIVE SkipLines(_, _, _)
SkipLines(s, p, n) ==
    IF n = 0 \/ AfterLine(s, p) = 0 THEN p ELSE SkipLines(s, AfterLine(s, p), n - 1)

AuthorHeader == "ha pubblicato questo post"

AccessoryLines == 3

\* the header pattern of lines 250-254 matches at p; its value is m.end()
\* (1-based position of the first character after the match), 0 for no match
HeaderEndAt(s, p) ==
    LET b == RunEnd(s, p + Len(AuthorHeader), Whitespace) + 1
    IN  IF /\ PrefixAt(s, p, AuthorHeader)
           /\ CharAt(s, b) \in Bullets
           /\ AfterLine(s, b + 1) /= 0
        THEN SkipLines(s, AfterLine(s, b + 1), AccessoryLines)
        ELSE 0

\* re.search: the leftmost match
HeaderEnd(s) ==
    LET hit == { p \in 1..Len(s) : HeaderEndAt(s, p) /= 0 }
    IN  IF hit = {} THEN 0
        ELSE HeaderEndAt(s, CHOOSE p \in hit : \A q \in hit : p <= q)

NavLines == 10

LongLine == 40

\* lines 260-262: the first line past index 10 (0-based) longer than 40 characters
FallbackStart(lines) ==
    LET hit == { n \in 1..Len(lines) :
                    Len(Strip(lines[n])) > LongLine /\ n - 1 > NavLines }
    IN  IF hit = {} THEN 1 ELSE CHOOSE n \in hit : \A m \in hit : n <= m

\* the literal end markers of lines 266-279, lower-cased (re.IGNORECASE)
EndMarkers ==
    { "\nreazioni\n", "\ncommenti\n", "\naggiungi un commento", "\nrispondi",
      "\ncondividi\n", "\ninvia\n", "\npost correlati", "\npotrebbe interessarti",
      "\naltri post di" }

\* \nMi piace\s*\n  at p
LikeMarkerAt(s, p) ==
    /\ PrefixAt(s, p, "\nmi piace")
    /\ \E q \in (p + 9)..RunEnd(s, p + 9, Whitespace) : CharAt(s, q) = "\n"

\* \n\d+ reazioni?\n  and  \n\d+ commenti?\n  at p
CountMarkerAt(s, p) ==
    LET e == RunEnd(s, p + 1, Digits)
    IN  /\ CharAt(s, p) = "\n"
        /\ e >= p + 1
        /\ \E w \in {" reazion", " reazioni", " comment", " commenti"} :
              PrefixAt(s, e + 1, w \o "\n")

\* lines 280-285: the earliest start of an end marker, len(block) when none
EarliestEnd(block) ==
    LET low == Lower(block)
        hit == { p \in 1..Len(low) :
                    \/ \E m \in EndMarkers : PrefixAt(low, p, m)
                    \/ LikeMarkerAt(low, p)
                    \/ CountMarkerAt(low, p) }
    IN  IF hit = {} THEN Len(block)
        ELSE (CHOOSE p \in hit : \A q \in hit : p <= q) - 1

\* [U+2026 .]{3}visualizza altro\s*  at p: the position after the match, 0 for none
SeeMoreEndAt(s, p) ==
    IF /\ CharAt(s, p) \in EllipsisChars
       /\ CharAt(s, p + 1) \in EllipsisChars
       /\ CharAt(s, p + 2) \in EllipsisChars
       /\ PrefixAt(s, p + 3, "visualizza altro")
    THEN RunEnd(s, p + 19, Whitespace) + 1
    ELSE 0

\* re.sub(r"[U+2026 .]{3}visualizza altro\s*", "", s), line 289
RECURSIVE StripSeeMore(_)
StripSeeMore(s) ==
    LET hit == { p \in 1..Len(s) : SeeMoreEndAt(s, p) /= 0 }
    IN  IF hit = {} THEN s
        ELSE LET p == CHOOSE q \in hit : \A r \in hit : q <= r
             IN  Take(s, p - 1) \o StripSeeMore(From(s, SeeMoreEndAt(s, p)))

PageNotFound == "[PAGE NOT FOUND]"

NotSpace(s) == { CharAt(s, p) : p \in 1..Len(s) } \ Whitespace

\* the rest of the header pattern of line 219 from the literal at q:
\* ha pubblicato questo post \s* [bullet] \s* \S+ \n? ; the position after the
\* match, 0 for no match.  The literal needs a character before it on its line
TextHeaderEndAt(s, q) ==
    LET b == RunEnd(s, q + Len(AuthorHeader), Whitespace) + 1
        c == RunEnd(s, b + 1, Whitespace) + 1
        e == RunEnd(s, c, NotSpace(s))
    IN  IF /\ PrefixAt(s, q, AuthorHeader)
           /\ q > 1
           /\ CharAt(s, q - 1) /= "\n"
           /\ CharAt(s, b) \in Bullets
           /\ e >= c
        THEN (IF CharAt(s, e + 1) = "\n" THEN e + 2 ELSE e + 1)
        ELSE 0

\* re.search of line 219: the match starts on the first line that holds a
\* literal the pattern accepts, and the greedy .+ takes the last one of the line
TextHeaderEnd(s) ==
    LET hit == { q \in 1..Len(s) : TextHeaderEndAt(s, q) /= 0 }
    IN  IF hit = {} THEN 0
        ELSE LET first == CHOOSE q \in hit : \A r \in hit : q <= r
                 line == { q \in hit : ~Contains(SubSeq(s, first, q - 1), "\n") }
             IN  TextHeaderEndAt(s, CHOOSE q \in line : \A r \in line : r <= q)

TextNavLines == 5

TextLongLine == 30

\* line 225: the first line past index 5 (0-based) longer than 30 characters
TextFallbackStart(lines) ==
    LET hit == { n \in 1..Len(lines) :
                    Len(Strip(lines[n])) > TextLongLine /\ n - 1 > TextNavLines }
    IN  IF hit = {} THEN 1 ELSE CHOOSE n \in hit : \A m \in hit : n <= m

\* re.sub(r"[U+2026 .]{3}visualizza altro\s*$", "", s), line 229: the pattern
\* matches only when nothing but white space follows it
StripSeeMoreAtEnd(s) ==
    LET hit == { p \in 1..Len(s) : SeeMoreEndAt(s, p) = Len(s) + 1 }
    IN  IF hit = {} THEN s
        ELSE Take(s, (CHOOSE q \in hit : \A r \in hit : q <= r) - 1)

HeadWindow == 50

HeadProbe == 30

\* no test of a repeated render: the block is kept whole
KeepRepeat(block) == block

\* lines 230-232: the second half is dropped when it starts like the first
DropRepeat(block) ==
    LET half == Len(block) \div 2
    IN  IF /\ Strip(Take(block, HeadWindow)) /= ""
           /\ StartsWith(Strip(SubSeq(block, half + 1,
                                       Min(half + HeadWindow, Len(block)))),
                         Strip(Take(block, HeadProbe)))
        THEN Take(block, half)
        ELSE block

\* extract_post_text(page_text), lines 210-233
extract_post_text(page_text) ==
    LET cut == IndexOf(page_text, "\nScoperta\n")
    IN  IF cut = 0 THEN ""
        ELSE
        LET part == Take(page_text, cut - 1)
            block0 == IF TextHeaderEnd(part) /= 0
                      THEN From(part, TextHeaderEnd(part))
                      ELSE LET lines == SplitLines(part)
                           IN  Join(SubSeq(lines, TextFallbackStart(lines), Len(lines)),
                                    "\n")
            block1 == StripSeeMoreAtEnd(ReplaceAll(block0, "\nhashtag\n", " "))
        IN  Strip(DropRepeat(block1))

\* the test of lines 244 and 397
IsDeadPage(page_text) ==
    \/ Contains(page_text, "Questa pagina non esiste")
    \/ Contains(page_text, "Page not found")

MinPostLen == 20

\* lines 250-290: the block between the author header and the first end
\* marker, cleaned and stripped
PostBlock(page_text) ==
    LET block0 == IF HeaderEnd(page_text) /= 0
                  THEN From(page_text, HeaderEnd(page_text))
                  ELSE LET lines == SplitLines(page_text)
                       IN  Join(SubSeq(lines, FallbackStart(lines), Len(lines)), "\n")
        block1 == Take(block0, EarliestEnd(block0))
    IN  Strip(StripSeeMore(ReplaceAll(block1, "\nhashtag\n", " ")))

\* the page test that looks at the first line of the text only
IsNotFoundAtStart(page_text) ==
    \/ StartsWith(page_text, "Questa pagina non esiste")
    \/ StartsWith(page_text, "Page not found")

\* the test of line 244
IsNotFoundText(page_text) ==
    \/ Contains(page_text, "Questa pagina non esiste")
    \/ Contains(page_text, "Page not found")

\* the extraction without the length test of lines 293-294
extract_any_length(page_text) ==
    IF IsNotFoundText(page_text) THEN PageNotFound ELSE PostBlock(page_text)

extract_post_text_from_post_page(page_text) ==
    IF IsNotFoundText(page_text) THEN PageNotFound
    ELSE LET block == PostBlock(page_text)
         IN  IF Len(block) < MinPostLen THEN "" ELSE block

(***************************************************************************)
(* clean_scraped_post_data                                                 *)
(***************************************************************************)
\* Python: d.get(key, default)
Get(d, key, default) == IF key \in DOMAIN d THEN d[key] ELSE default

\* the characters of the class \w
WordChars ==
    { UpperCase[k] : k \in 1..26 } \cup { LowerCase[k] : k \in 1..26 }
        \cup Digits \cup {"_"}

\* the characters of s from lo to hi at the positions of keep, those at the
\* positions of blank written as a space
RECURSIVE Sift(_, _, _, _, _)
Sift(s, lo, hi, keep, blank) ==
    IF lo > hi THEN ""
    ELSE IF lo = hi
    THEN (IF lo \notin keep THEN "" ELSE IF lo \in blank THEN " " ELSE CharAt(s, lo))
    ELSE Sift(s, lo, (lo + hi) \div 2, keep, blank)
            \o Sift(s, (lo + hi) \div 2 + 1, hi, keep, blank)

\* Python: s.replace(c, "") for a character c
RemoveChar(s, c) ==
    Sift(s, 1, Len(s), { p \in 1..Len(s) : CharAt(s, p) /= c }, {})

\* re.sub(r"\s+", " ", s), line 674
CollapseSpaces(s) ==
    LET blank == { p \in 1..Len(s) : CharAt(s, p) \in Whitespace }
    IN  Sift(s, 1, Len(s), { p \in 1..Len(s) : ~(p \in blank /\ p - 1 \in blank) }, blank)

\* the positions of line where a match of #\w+ starts
TagStarts(line) ==
    { p \in 1..Len(line) : CharAt(line, p) = "#" /\ CharAt(line, p + 1) \in WordChars }

\* re.findall(r"#\w+", line), line 653
RECURSIVE TagsFrom(_, _)
TagsFrom(line, p) ==
    LET later == { q \in TagStarts(line) : q >= p }
    IN  IF later = {} THEN << >>
        ELSE LET q == CHOOSE h \in later : \A r \in later : h <= r
                 e == RunEnd(line, q + 1, WordChars)
             IN  << SubSeq(line, q, e) >> \o TagsFrom(line, e + 1)

\* lines 655-657: the tags in first-seen order, each once
RECURSIVE Dedupe(_)
Dedupe(tags) ==
    IF tags = << >> THEN << >>
    ELSE LET init == Dedupe(SubSeq(tags, 1, Len(tags) - 1))
             last == tags[Len(tags)]
         IN  IF \E k \in 1..Len(init) : init[k] = last THEN init ELSE Append(init, last)

\* lines 659-660: re.sub(tag(?!\w), "", line) for every tag found; a tag found
\* by #\w+ is followed by no word character, so every match found is removed
WithoutTags(line) ==
    LET starts == TagStarts(line)
        tagged == { p \in 1..Len(line) :
                      \E q \in starts : q <= p /\ p <= RunEnd(line, q + 1, WordChars) }
    IN  Sift(line, 1, Len(line), (1..Len(line)) \ tagged, {})

HeaderLine == "Visibile a tutti su LinkedIn e altrove"

\* the footer lines of line 632, the apostrophe and the accents in ASCII
FooterLines ==
    { "Attiva per visualizzare un'immagine piu grande,",
      "Il documento e stato caricato" }

OthersMark == " altre persone"

\* lines 622-626: the index (1-based) of the first line after the header line
StartIndex(lines) ==
    LET hit == { n \in 1..Len(lines) : Contains(lines[n], HeaderLine) }
    IN  IF hit = {} THEN 1 ELSE (CHOOSE n \in hit : \A m \in hit : n <= m) + 1

\* a footer scan that starts at the first line instead of the header boundary
FooterIndexFromTop(lines, start) ==
    LET hit == { n \in 1..Len(lines) :
                    \/ Strip(lines[n]) \in FooterLines
                    \/ Contains(Strip(lines[n]), OthersMark) }
    IN  IF hit = {} THEN Len(lines) + 1
        ELSE LET n == CHOOSE h \in hit : \A m \in hit : h <= m
             IN  IF n > 1 /\ IsDigitStr(Strip(lines[n - 1])) THEN n - 1 ELSE n

\* lines 629-637: the index (1-based) of the first footer line, stepped back
\* over a line of digits; len(lines) + 1 without footer
FooterIndex(lines, start) ==
    LET hit == { n \in start..Len(lines) :
                    \/ Strip(lines[n]) \in FooterLines
                    \/ Contains(Strip(lines[n]), OthersMark) }
    IN  IF hit = {} THEN Len(lines) + 1
        ELSE LET n == CHOOSE h \in hit : \A m \in hit : h <= m
             IN  IF n > 1 /\ IsDigitStr(Strip(lines[n - 1])) THEN n - 1 ELSE n

\* lines 640-641: the empty lines before the footer are dropped
RECURSIVE TrimEnd(_, _, _)
TrimEnd(lines, start, end) ==
    IF end > start /\ Strip(lines[end - 1]) = ""
    THEN TrimEnd(lines, start, end - 1)
    ELSE end

\* lines 621-643: cleaned_body_lines
CleanedLines(body) ==
    LET lines == SplitLines(body)
        start == StartIndex(lines)
        end   == TrimEnd(lines, start, FooterIndex(lines, start))
    IN  SubSeq(lines, start, end - 1)

\* the line the tags are taken from: the last one that holds a match of #\w+
TagLine(lines) ==
    LET hit == { n \in 1..Len(lines) : TagStarts(lines[n]) /= {} }
    IN  IF hit = {} THEN 0 ELSE CHOOSE n \in hit : \A m \in hit : m <= n

\* tags taken from every line that holds a match of #\w+
ExtractAllTags(lines) ==
    LET all == [ n \in 1..Len(lines) |-> TagsFrom(lines[n], 1) ]
        flat[n \in 0..Len(lines)] == IF n = 0 THEN << >> ELSE flat[n - 1] \o all[n]
    IN  Dedupe(flat[Len(lines)])

\* lines 646-657
ExtractTags(lines) ==
    IF TagLine(lines) = 0 THEN << >>
    ELSE Dedupe(TagsFrom(lines[TagLine(lines)], 1))

\* lines 659-665: the tag line without its tags, stripped (an empty line is
\* popped, which the join of line 672 does as well)
UntagLines(lines) ==
    IF TagLine(lines) = 0 THEN lines
    ELSE [lines EXCEPT ![TagLine(lines)] = Strip(WithoutTags(@))]

\* " ".join(l for l in lines if l)
RECURSIVE JoinNonEmpty(_)
JoinNonEmpty(lines) ==
    IF lines = << >> THEN ""
    ELSE LET rest == JoinNonEmpty(Tail(lines))
         IN  IF Head(lines) = "" THEN rest
             ELSE IF rest = "" THEN Head(lines)
             ELSE Head(lines) \o " " \o rest

\* lines 669-674: the lines without "\r", stripped, joined and squeezed
BodyText(lines) ==
    Strip(CollapseSpaces(Strip(JoinNonEmpty(
        [ n \in 1..Len(lines) |-> Strip(RemoveChar(lines[n], "\r")) ]))))

TitleMax == 150

TitleCut == 147

\* a title of the first 150 characters and the ellipsis
LongTitle(text) ==
    IF text = "" THEN ""
    ELSE IF Len(text) > TitleMax
    THEN LET dot == IndexOf(text, ".")
             first_sentence == IF dot = 0 THEN text \o "." ELSE Take(text, dot)
         IN  IF Len(first_sentence) < TitleMax THEN first_sentence
             ELSE Take(text, TitleMax) \o "..."
    ELSE text

\* lines 677-683: new_title
NewTitle(text) ==
    IF text = "" THEN ""
    ELSE IF Len(text) > TitleMax
    THEN LET dot == IndexOf(text, ".")
             first_sentence == IF dot = 0 THEN text \o "." ELSE Take(text, dot)
         IN  IF Len(first_sentence) < TitleMax THEN first_sentence
             ELSE Take(text, TitleCut) \o "..."
    ELSE text

\* clean_scraped_post_data(post_data), lines 609-689: the three keys it sets
clean_scraped_post_data(post_data) ==
    LET cleaned == CleanedLines(Get(post_data, "body", ""))
        text == BodyText(UntagLines(cleaned))
    IN  [ title |-> NewTitle(text), body |-> text, tags |-> ExtractTags(cleaned) ]

(***************************************************************************)
(* URLs                                                                    *)
(***************************************************************************)
\* the literal lit followed by at least n digits occurs at p
LitDigitsAt(s, p, lit, n) ==
    /\ PrefixAt(s, p, lit)
    /\ RunEnd(s, p + Len(lit), Digits) - (p + Len(lit)) + 1 >= n

\* re.search(lit \d{n,}, s): the position of the leftmost match, 0 for none
LitDigitsPos(s, lits, n) ==
    LET hit == { p \in 1..Len(s) : \E lit \in lits : LitDigitsAt(s, p, lit, n) }
    IN  IF hit = {} THEN 0 ELSE CHOOSE p \in hit : \A q \in hit : p <= q

\* the digits matched by \d{n,} in the leftmost match of lit \d{n,}
LitDigits(s, lit, n) ==
    LET p == LitDigitsPos(s, {lit}, n)
    IN  SubSeq(s, p + Len(lit), RunEnd(s, p + Len(lit), Digits))

UrnForms == {"urn:li:activity:", "urn:li:ugcPost:"}

ActivityIdLen == 10

SummaryBase == "https://www.linkedin.com/analytics/post-summary/"

\* analytics_url(post_url), lines 67-75
analytics_url(post_url) ==
    LET clean == RStripSlash(Strip(post_url))
        p     == LitDigitsPos(clean, UrnForms, 1)
    IN  IF p /= 0
        THEN LET lit == CHOOSE l \in UrnForms : LitDigitsAt(clean, p, l, 1)
             IN  SummaryBase
                    \o SubSeq(clean, p, RunEnd(clean, p + Len(lit), Digits)) \o "/"
        ELSE IF LitDigitsPos(clean, {"activity-"}, ActivityIdLen) /= 0
        THEN SummaryBase \o "urn:li:activity:"
                \o LitDigits(clean, "activity-", ActivityIdLen) \o "/"
        ELSE clean

\* datetime.now().strftime("%Y%m%d%H%M%S") at the time of the call
NowStamp == "20240101120000"

\* an identifier function that searches the legacy slug form first
get_post_id_slug_first(an_url, post_url, fallback_idx) ==
    LET url_to_parse == IF an_url /= "" THEN an_url ELSE post_url
    IN  IF LitDigitsPos(url_to_parse, {"activity-"}, ActivityIdLen) /= 0
        THEN "urn_li_activity_" \o LitDigits(url_to_parse, "activity-", ActivityIdLen)
        ELSE IF LitDigitsPos(url_to_parse, {"urn:li:activity:"}, ActivityIdLen) /= 0
        THEN "urn_li_activity_"
                \o LitDigits(url_to_parse, "urn:li:activity:", ActivityIdLen)
        ELSE "scraped_" \o NowStamp \o "_" \o ToString(fallback_idx)

\* get_post_id_from_url(analytics_url, post_url, fallback_idx), lines 691-709
get_post_id_from_url(an_url, post_url, fallback_idx) ==
    LET url_to_parse == IF an_url /= "" THEN an_url ELSE post_url
    IN  IF LitDigitsPos(url_to_parse, {"urn:li:activity:"}, ActivityIdLen) /= 0
        THEN "urn_li_activity_"
                \o LitDigits(url_to_parse, "urn:li:activity:", ActivityIdLen)
        ELSE IF LitDigitsPos(url_to_parse, {"activity-"}, ActivityIdLen) /= 0
        THEN "urn_li_activity_" \o LitDigits(url_to_parse, "activity-", ActivityIdLen)
        ELSE "scraped_" \o NowStamp \o "_" \o ToString(fallback_idx)

(***************************************************************************)
(* scrape_post: the record and the steps that decide its fields            *)
(***************************************************************************)
\* datetime.now().strftime("%Y-%m-%d %H:%M") at the time of the call
ScrapedAt == "2024-01-01 12:00"

\* the dict of lines 302-331
InitialResult(post_url) ==
    [ post_url |-> post_url, analytics_url |-> "", post_text |-> "",
      post_date |-> "", post_time |-> "",
      impressions |-> "", unique_views |-> "", profile_visits |-> "",
      followers_gained |-> "", reactions |-> "", comments |-> "",
      reposts |-> "", saves |-> "", sends |-> "",
      reactions_top_role |-> "", reactions_top_location |-> "",
      reactions_top_industry |-> "", comments_top_role |-> "",
      comments_top_location |-> "", comments_top_industry |-> "",
      demo_seniority |-> "", demo_role |-> "", demo_industry |-> "",
      demo_company_size |-> "", demo_location |-> "", demo_company |-> "",
      scraped_at |-> ScrapedAt, error |-> "" ]

LoginMarkers == {"authwall", "/login", "checkpoint", "uas/authenticate"}

\* line 342
IsLoginRedirect(url) == \E x \in LoginMarkers : Contains(url, x)

ErrLogin == "Redirect al login - sessione scaduta"

ErrNotFound == "Post non trovato o eliminato"

ErrNoExport == "Pulsante Esporta non trovato"

ErrTimeout == "Timeout"

\* str(exc)[:150] of an exception a browser step raises: Playwright's errors
\* carry a message
ErrBrowser == "Target page, context or browser has been closed"

ErrLoginRequired == "Login required. Run without headless mode first."

\* outcomes of a browser call
Outcomes == {"ok", "timeout", "error"}

\* an entry of the trail: a step of scrape_post and how it ended
Step(step, outcome) == [step |-> step, outcome |-> outcome]

\* outer except clauses of which the timeout clause only prints
OuterExceptSilentTimeout(rec, outcome) ==
    IF outcome = "timeout" THEN rec ELSE [rec EXCEPT !.error = ErrBrowser]

\* the except clauses of lines 484-489
OuterExcept(rec, outcome) ==
    [rec EXCEPT !.error = IF outcome = "timeout" THEN ErrTimeout ELSE ErrBrowser]

\* lines 350-354: the analytics link of the post page (linkOk: the query raised
\* nothing)
LinkUrl(pg, linkOk) ==
    IF linkOk /\ pg.href /= ""
    THEN (IF StartsWith(pg.href, "http") THEN pg.href
          ELSE "https://www.linkedin.com" \o pg.href)
    ELSE ""

\* a second strategy that does not test whether the link gave a URL
PathUrlOverrides(pg, a) ==
    IF Contains(pg.url, "activity-")
          /\ LitDigitsPos(pg.url, {"activity-"}, ActivityIdLen) /= 0
    THEN SummaryBase \o "urn:li:activity:"
            \o LitDigits(pg.url, "activity-", ActivityIdLen) \o "/"
    ELSE a

\* lines 358-363: activity-<digits> in the final URL of the page
PathUrl(pg, a) ==
    IF a = "" /\ Contains(pg.url, "activity-")
               /\ LitDigitsPos(pg.url, {"activity-"}, ActivityIdLen) /= 0
    THEN SummaryBase \o "urn:li:activity:"
            \o LitDigits(pg.url, "activity-", ActivityIdLen) \o "/"
    ELSE a

\* lines 365-370: urn:li:activity:<digits> in the HTML of the page
HtmlUrl(pg, a) ==
    IF a = "" /\ LitDigitsPos(pg.html, {"urn:li:activity:"}, ActivityIdLen) /= 0
    THEN SummaryBase \o "urn:li:activity:"
            \o LitDigits(pg.html, "urn:li:activity:", ActivityIdLen) \o "/"
    ELSE a

\* lines 373-374 and 406-407
RegexUrl(post_url, a) == IF a = "" THEN analytics_url(post_url) ELSE a

\* lines 347-374 and 403-407: a_url after the four strategies (contentOk:
\* page.content() raised nothing)
ResolvedUrl(pg, post_url, linkOk, contentOk) ==
    LET a2 == PathUrl(pg, LinkUrl(pg, linkOk))
    IN  IF a2 /= "" THEN a2
        ELSE IF contentOk THEN RegexUrl(post_url, HtmlUrl(pg, a2))
        ELSE RegexUrl(post_url, "")

\* a merge that takes the URL of the export's URL row when there is one
MergeExportUrl(rec, export_data, post_url) ==
    LET merged == Update(rec, export_data)
        exported == Get(export_data, "post_url_export", "")
    IN  [ merged EXCEPT !["post_url"] = IF exported /= "" THEN exported ELSE post_url ]

\* a merge that reports the parser's failure in the error field
MergeExportMarksError(rec, export_data, post_url) ==
    [ Update(rec, export_data) EXCEPT
        !["post_url"] = post_url,
        !["error"] = Get(export_data, "parse_error", "") ]

\* lines 464-468: the export's fields are merged, the input URL is kept
MergeExport(rec, export_data, post_url) ==
    [ Update(rec, export_data) EXCEPT !["post_url"] = post_url ]

(***************************************************************************)
(* The batch: the GUI handler, scrape_urls and the steps of scrape_post    *)
(***************************************************************************)
guiVars == << gidx, success_count, files, counters_read >>

postVars == << result, a_url, page, download, trail >>

NoPage == [url |-> "", href |-> "", html |-> "", text |-> "", export_visible |-> FALSE]

NoFile == [valid |-> FALSE, names |-> << >>, sheets |-> << >>]

\* gui.py lines 349-353: the button handler keeps the lines that start with
\* "http" and calls the scraper when any is left
GuiClick ==
    /\ pc = "idle"
    /\ pc' = IF urls = << >> THEN "gui_done" ELSE "start"
    /\ UNCHANGED << urls, i, records, delays, web >>
    /\ UNCHANGED postVars
    /\ UNCHANGED guiVars
    /\ UNCHANGED pureVars

\* scrape_urls lines 520-589: the browser is started and the session checked
\* (headless: the constructor argument of the scraper the handler creates for
\* this run).  An exception of these calls leaves scrape_urls (no except
\* clause); without a session a headless run returns one login-required record
\* per URL
Launch ==
    /\ pc = "start"
    /\ \E headless \in BOOLEAN,
          session \in {"logged_in", "manual_login", "none", "failed"} :
        \/ /\ session = "failed"
           /\ pc' = "raised"
           /\ UNCHANGED << i, records >>
        \/ /\ session = "none"
           /\ headless
           /\ records' = [ n \in 1..Len(urls) |->
                            [post_url |-> urls[n], error |-> ErrLoginRequired] ]
           /\ pc' = "returned"
           /\ UNCHANGED i
        \/ /\ \/ session = "logged_in"
              \/ session \in {"manual_login", "none"} /\ ~headless
           /\ i' = 1
           /\ pc' = "visit_post"
           /\ UNCHANGED records
    /\ UNCHANGED << urls, delays, web >>
    /\ UNCHANGED postVars
    /\ UNCHANGED guiVars
    /\ UNCHANGED pureVars

\* scrape_post lines 302-345 and 403-407: the record is created, the post page
\* is opened and the login redirect is checked; an exception of goto is caught
\* by the inner except clause
VisitPost ==
    /\ pc = "visit_post"
    /\ download' = NoFile
    /\ \E outcome \in Outcomes, pg \in web.posts :
        IF outcome = "ok"
        THEN /\ page' = pg
             /\ a_url' = ""
             /\ IF IsLoginRedirect(pg.url)
                THEN /\ result' = [InitialResult(urls[i]) EXCEPT !.error = ErrLogin]
                     /\ trail' = << Step("goto_post", "login_redirect") >>
                     /\ pc' = "append"
                ELSE /\ result' = InitialResult(urls[i])
                     /\ trail' = << Step("goto_post", "ok") >>
                     /\ pc' = "resolve"
        ELSE /\ page' = NoPage
             /\ a_url' = RegexUrl(urls[i], "")
             /\ result' = InitialResult(urls[i])
             /\ trail' = << Step("goto_post", outcome) >>
             /\ pc' = "goto_analytics"
    /\ UNCHANGED << urls, i, records, delays, web >>
    /\ UNCHANGED guiVars
    /\ UNCHANGED pureVars

\* lines 347-374: the analytics URL is resolved; an exception of the link query
\* is swallowed, an exception of page.content() is caught by the inner except
\* clause (lines 403-407)
ResolveAnalytics ==
    /\ pc = "resolve"
    /\ \E linkOk \in BOOLEAN, content \in Outcomes :
        LET a2 == PathUrl(page, LinkUrl(page, linkOk))
        IN  /\ a_url' = ResolvedUrl(page, urls[i], linkOk, content = "ok")
            /\ IF a2 /= "" \/ content = "ok"
               THEN /\ trail' = Append(trail, Step("resolve", "ok"))
                    /\ pc' = "read_post"
               ELSE /\ trail' = Append(trail, Step("resolve", content))
                    /\ pc' = "goto_analytics"
    /\ UNCHANGED << urls, i, records, delays, web, result, page, download >>
    /\ UNCHANGED guiVars
    /\ UNCHANGED pureVars

\* a reading of the post page without the dead-page test of lines 397-400
ReadPostTextNoDeadCheck ==
    /\ pc = "read_post"
    /\ \E outcome \in Outcomes :
        IF outcome = "ok"
        THEN /\ result' = [result EXCEPT !.post_text =
                               extract_post_text_from_post_page(page.text)]
             /\ trail' = Append(trail, Step("read_post_text",
                                  IF IsDeadPage(page.text) THEN "dead_page" ELSE "ok"))
             /\ pc' = "goto_analytics"
        ELSE /\ result' = [result EXCEPT !.post_text = ""]
             /\ trail' = Append(trail, Step("read_post_text", outcome))
             /\ pc' = "goto_analytics"
    /\ UNCHANGED << urls, i, records, delays, web, a_url, page, download >>
    /\ UNCHANGED guiVars
    /\ UNCHANGED pureVars

\* lines 376-407: the text of the post page is read, the dead page is checked
\* and the post text extracted; an exception is caught by the inner except
ReadPostText ==
    /\ pc = "read_post"
    /\ \E outcome \in Outcomes :
        IF outcome = "ok"
        THEN IF IsDeadPage(page.text)
             THEN /\ result' = [result EXCEPT !.error = ErrNotFound]
                  /\ trail' = Append(trail, Step("read_post_text", "dead_page"))
                  /\ pc' = "append"
             ELSE /\ result' = [result EXCEPT !.post_text =
                                    extract_post_text_from_post_page(page.text)]
                  /\ trail' = Append(trail, Step("read_post_text", "ok"))
                  /\ pc' = "goto_analytics"
        ELSE /\ result' = [result EXCEPT !.post_text = ""]
             /\ trail' = Append(trail, Step("read_post_text", outcome))
             /\ pc' = "goto_analytics"
    /\ UNCHANGED << urls, i, records, delays, web, a_url, page, download >>
    /\ UNCHANGED guiVars
    /\ UNCHANGED pureVars

\* lines 409-413: the analytics page is opened
GotoAnalytics ==
    /\ pc = "goto_analytics"
    /\ \E outcome \in Outcomes, pg \in web.analytics :
        /\ trail' = Append(trail, Step("goto_analytics", outcome))
        /\ IF outcome = "ok"
           THEN /\ page' = pg
                /\ result' = [result EXCEPT !.analytics_url = a_url]
                /\ pc' = "read_analytics"
           ELSE /\ page' = NoPage
                /\ result' = OuterExcept([result EXCEPT !.analytics_url = a_url],
                                          outcome)
                /\ pc' = "append"
    /\ UNCHANGED << urls, i, records, delays, web, a_url, download >>
    /\ UNCHANGED guiVars
    /\ UNCHANGED pureVars

\* lines 414-424: the export control is awaited (its timeout is swallowed) and
\* the text of the analytics page is read
ReadAnalytics ==
    /\ pc = "read_analytics"
    /\ \E wait \in Outcomes, read \in Outcomes :
        IF wait = "error"
        THEN /\ result' = OuterExcept(result, wait)
             /\ trail' = Append(trail, Step("wait_export", wait))
             /\ pc' = "append"
        ELSE /\ trail' = trail \o << Step("wait_export", wait),
                                     Step("read_analytics_text", read) >>
             /\ IF read /= "ok"
                THEN /\ result' = OuterExcept(result, read)
                     /\ pc' = "append"
                ELSE /\ pc' = "find_export"
                     /\ UNCHANGED result
    /\ UNCHANGED << urls, i, records, delays, web, a_url, page, download >>
    /\ UNCHANGED guiVars
    /\ UNCHANGED pureVars

\* lines 427-449: the export control is looked up (exceptions swallowed);
\* without it the record is marked and filled from the page text
FindExport ==
    /\ pc = "find_export"
    /\ \E queryOk \in BOOLEAN :
        IF queryOk /\ page.export_visible
        THEN /\ trail' = Append(trail, Step("find_export", "ok"))
             /\ pc' = "download"
             /\ UNCHANGED result
        ELSE /\ result' = FillStatsFromText([result EXCEPT !.error = ErrNoExport],
                                            page.text)
             /\ trail' = trail \o << Step("find_export", "none"),
                                     Step("text_fallback", "ok") >>
             /\ pc' = "append"
    /\ UNCHANGED << urls, i, records, delays, web, a_url, page, download >>
    /\ UNCHANGED guiVars
    /\ UNCHANGED pureVars

\* lines 451-455: the export control is clicked and the download awaited
ClickExport ==
    /\ pc = "download"
    /\ \E outcome \in Outcomes, f \in web.exports :
        /\ trail' = Append(trail, Step("click_export", outcome))
        /\ IF outcome = "ok"
           THEN /\ download' = f
                /\ pc' = "save"
                /\ UNCHANGED result
           ELSE /\ result' = OuterExcept(result, outcome)
                /\ pc' = "append"
                /\ UNCHANGED download
    /\ UNCHANGED << urls, i, records, delays, web, a_url, page >>
    /\ UNCHANGED guiVars
    /\ UNCHANGED pureVars

\* lines 457-461: the download is saved to the temporary directory
SaveDownload ==
    /\ pc = "save"
    /\ \E outcome \in {"ok", "error"} :
        /\ trail' = Append(trail, Step("save_download", outcome))
        /\ IF outcome = "ok"
           THEN /\ pc' = "parse"
                /\ UNCHANGED result
           ELSE /\ result' = OuterExcept(result, outcome)
                /\ pc' = "append"
    /\ UNCHANGED << urls, i, records, delays, web, a_url, page, download >>
    /\ UNCHANGED guiVars
    /\ UNCHANGED pureVars

\* lines 463-482: the saved file is parsed and merged into the record
ParseExport ==
    /\ pc = "parse"
    /\ trail' = Append(trail, Step("parse_export", "ok"))
    /\ result' = MergeExport(result, parse_linkedin_export(download), urls[i])
    /\ pc' = "append"
    /\ UNCHANGED << urls, i, records, delays, web, a_url, page, download >>
    /\ UNCHANGED guiVars
    /\ UNCHANGED pureVars

\* a loop that stops at the first record with an error
AppendRecordStopOnError ==
    /\ pc = "append"
    /\ records' = Append(records, result)
    /\ IF i < Len(urls) /\ result.error = ""
       THEN /\ delays' = delays + 1
            /\ i' = i + 1
            /\ pc' = "visit_post"
       ELSE /\ pc' = "returned"
            /\ UNCHANGED << delays, i >>
    /\ result' = InitialResult("")
    /\ a_url' = ""
    /\ page' = NoPage
    /\ download' = NoFile
    /\ trail' = << >>
    /\ UNCHANGED << urls, web >>
    /\ UNCHANGED guiVars
    /\ UNCHANGED pureVars

\* a loop that sleeps after every post, the last one included
AppendRecordAlwaysDelays ==
    /\ pc = "append"
    /\ records' = Append(records, result)
    /\ IF i < Len(urls)
       THEN /\ delays' = delays + 1
            /\ i' = i + 1
            /\ pc' = "visit_post"
       ELSE /\ pc' = "returned"
            /\ delays' = delays + 1
            /\ UNCHANGED i
    /\ result' = InitialResult("")
    /\ a_url' = ""
    /\ page' = NoPage
    /\ download' = NoFile
    /\ trail' = << >>
    /\ UNCHANGED << urls, web >>
    /\ UNCHANGED guiVars
    /\ UNCHANGED pureVars

\* scrape_post returns (its locals end with the call); scrape_urls lines
\* 593-599 and 607: the record is appended, the delay is waited before the next
\* post, the list is returned after the last
AppendRecord ==
    /\ pc = "append"
    /\ records' = Append(records, result)
    /\ IF i < Len(urls)
       THEN /\ delays' = delays + 1
            /\ i' = i + 1
            /\ pc' = "visit_post"
       ELSE /\ pc' = "returned"
            /\ UNCHANGED << delays, i >>
    /\ result' = InitialResult("")
    /\ a_url' = ""
    /\ page' = NoPage
    /\ download' = NoFile
    /\ trail' = << >>
    /\ UNCHANGED << urls, web >>
    /\ UNCHANGED guiVars
    /\ UNCHANGED pureVars

\* the three files the handler writes for a record, in the order of the writes
RecordFiles(post_id) ==
    << "data/posts/post_" \o post_id \o ".json",
       "data/metrics/metrics_" \o post_id \o ".json",
       "data/history/history_" \o post_id \o ".json" >>

\* an iteration of the loop without the test of the record's error
GuiRecordUnchecked ==
    /\ pc = "returned"
    /\ gidx <= Len(records)
    /\ LET record == records[gidx]
           post_id == get_post_id_from_url(Get(record, "analytics_url", ""),
                                           Get(record, "post_url", ""), gidx - 1)
       IN  /\ counters_read' = counters_read \cup {gidx}
           /\ files' = files \cup
                 { [path |-> RecordFiles(post_id)[w], record |-> gidx] : w \in 1..3 }
           /\ success_count' = success_count + 1
           /\ gidx' = gidx + 1
    /\ UNCHANGED << urls, pc, i, records, delays, web >>
    /\ UNCHANGED postVars
    /\ UNCHANGED pureVars

\* gui.py lines 378-446: one iteration of the loop over the records.  A record
\* with an error is reported and skipped; for the others the identifier is
\* derived, the counters are read and the three files written
GuiRecord ==
    /\ pc = "returned"
    /\ gidx <= Len(records)
    /\ LET record == records[gidx]
       IN  IF Get(record, "error", "") /= ""
           THEN /\ gidx' = gidx + 1
                /\ UNCHANGED << success_count, files, counters_read >>
           ELSE LET post_id == get_post_id_from_url(Get(record, "analytics_url", ""),
                                                    Get(record, "post_url", ""),
                                                    gidx - 1)
                IN  /\ counters_read' = counters_read \cup {gidx}
                    /\ files' = files \cup
                          { [path |-> RecordFiles(post_id)[w], record |-> gidx] :
                                w \in 1..3 }
                    /\ success_count' = success_count + 1
                    /\ gidx' = gidx + 1
    /\ UNCHANGED << urls, pc, i, records, delays, web >>
    /\ UNCHANGED postVars
    /\ UNCHANGED pureVars

\* gui.py lines 448-451: the summary after the loop
GuiFinish ==
    /\ pc = "returned"
    /\ gidx > Len(records)
    /\ pc' = "gui_done"
    /\ UNCHANGED << urls, i, records, delays, web >>
    /\ UNCHANGED postVars
    /\ UNCHANGED guiVars
    /\ UNCHANGED pureVars

(***************************************************************************)
(* Inputs: URLs, pages and export files                                    *)
(***************************************************************************)
MaxUrls == 2

UrlSlug == "https://www.linkedin.com/posts/mario_dati-activity-7123456789012-abcd"

UrlUgc == "https://www.linkedin.com/feed/update/urn:li:ugcPost:7000000000001/"

UrlPlain == "https://www.linkedin.com/in/mario-rossi/recent"

InputUrls == {UrlSlug, UrlUgc}

RECURSIVE ListsUpTo(_, _)
ListsUpTo(S, n) ==
    IF n = 0 THEN { << >> }
    ELSE ListsUpTo(S, n - 1)
         \cup { Append(l, x) : l \in { m \in ListsUpTo(S, n - 1) : Len(m) = n - 1 },
                               x \in S }

PostBody == "Oggi parliamo di dati.\n#dati #analisi"

PostText ==
    "Home\nMario ha pubblicato questo post * 3g\nSegui\n\n\n"
        \o PostBody \o "\nReazioni\n12 commenti\n"

PostPageLinked ==
    [ url  |-> UrlSlug,
      href |-> "/analytics/post-summary/urn:li:activity:7123456789012/",
      html |-> "<html>urn:li:activity:7123456789012</html>",
      text |-> PostText, export_visible |-> FALSE ]

PostPageSlug ==
    [ url  |-> UrlSlug, href |-> "", html |-> "<html></html>",
      text |-> PostText, export_visible |-> FALSE ]

PostPageHtml ==
    [ url  |-> "https://www.linkedin.com/feed/update/7000000000001", href |-> "",
      html |-> "<meta content=urn:li:activity:7000000000002>",
      text |-> "Home\nNotifiche\nbreve\nReazioni\n", export_visible |-> FALSE ]

PostPageBare ==
    [ url  |-> UrlPlain, href |-> "", html |-> "<html></html>",
      text |-> PostText, export_visible |-> FALSE ]

PostPageLogin ==
    [ url  |-> "https://www.linkedin.com/authwall?trk=x", href |-> "", html |-> "",
      text |-> "Accedi a LinkedIn", export_visible |-> FALSE ]

PostPageDead ==
    [ url  |-> UrlSlug, href |-> "", html |-> "<html></html>",
      text |-> "LinkedIn\nQuesta pagina non esiste\nVai al feed", export_visible |-> FALSE ]

AnalyticsText == "Scoperta\n1.234\nImpressioni\n987\nReazioni\n1.050\nCommenti\n3\n"

AnalyticsPageExport ==
    [ url |-> "", href |-> "", html |-> "", text |-> AnalyticsText,
      export_visible |-> TRUE ]

AnalyticsPageNoExport ==
    [ url |-> "", href |-> "", html |-> "", text |-> AnalyticsText,
      export_visible |-> FALSE ]

AnalyticsPageEmpty ==
    [ url |-> "", href |-> "", html |-> "", text |-> "Accedi a LinkedIn",
      export_visible |-> FALSE ]

Sheet(rows) == [readable |-> TRUE, rows |-> rows]

BrokenSheet == [readable |-> FALSE, rows |-> << >>]

Row2(label, value) == << Cell(label), Cell(value) >>

Row3(cat, val, pct) == << Cell(cat), Cell(val), Cell(pct) >>

PerfRowsFull ==
    << Row2("URL post", "https://www.linkedin.com/feed/update/urn:li:ugcPost:7000000000009"),
       Row2("Data di pubblicazione", "17 nov 2025"),
       Row2("Impressioni", "1.234"),
       Row2("Utenti raggiunti", "987"),
       Row2("Reazioni", "12"),
       Row2("Commenti", "3"),
       << Cell("Reazioni in evidenza") >>,
       Row2("Qualifica principale", "CEO"),
       << Cell("Commenti in evidenza") >>,
       Row2("Settore principale", "IT") >>

PerfRowsLocale == << Row2("Impressioni", "1.234"), Row2("Reazioni", "1,050") >>

\* a performance sheet whose second column is empty: one column is read
PerfRowsOneColumn == << << Cell("Impressioni") >>, << Cell("Reazioni") >> >>

DemoRowsFull ==
    << Row3("Categoria", "Valore", "%"),
       Row3("Dimensioni azienda", "11-50", "0.275"),
       Row3("Qualifica", "Founder", "0.2"),
       Row3("Azienda", "ACME", "0.1"),
       Row3("Anzianita", "Senior", "0.5") >>

\* a demographics sheet without the percentage column
DemoRowsTwoColumns == << Row2("Categoria", "Valore"), Row2("Azienda", "ACME") >>

SheetNames == << "RENDIMENTO", "PRINCIPALI DATI DEMOGRAFICI" >>

Workbook(names, sheets) == [valid |-> TRUE, names |-> names, sheets |-> sheets]

ExportFull == Workbook(SheetNames, << Sheet(PerfRowsFull), Sheet(DemoRowsFull) >>)

ExportSmall ==
    Workbook(SheetNames,
             << Sheet(PerfRowsLocale),
                Sheet(<< Row3("Categoria", "Valore", "%"),
                         Row3("Azienda", "ACME", "0.275") >>) >>)

ExportNoDemo == Workbook(<< "RENDIMENTO" >>, << Sheet(PerfRowsLocale) >>)

ExportBadPerf == Workbook(SheetNames, << Sheet(PerfRowsOneColumn), Sheet(DemoRowsFull) >>)

ExportBadDemo == Workbook(SheetNames, << Sheet(PerfRowsLocale), Sheet(DemoRowsTwoColumns) >>)

ExportUnreadableDemo == Workbook(SheetNames, << Sheet(PerfRowsLocale), BrokenSheet >>)

ExportOnlyBadPerf == Workbook(<< "RENDIMENTO" >>, << Sheet(PerfRowsOneColumn) >>)

ExportCorrupt == NoFile

\* the site of the batch runs
SmallWeb ==
    [ posts     |-> {PostPageLinked, PostPageLogin, PostPageDead},
      analytics |-> {AnalyticsPageExport, AnalyticsPageNoExport},
      exports   |-> {ExportSmall} ]

\* the site of the single-post runs
RichWeb ==
    [ posts     |-> {PostPageLinked, PostPageSlug, PostPageHtml, PostPageBare,
                     PostPageLogin, PostPageDead},
      analytics |-> {AnalyticsPageExport, AnalyticsPageNoExport, AnalyticsPageEmpty},
      exports   |-> {ExportFull, ExportSmall, ExportNoDemo, ExportBadPerf, ExportBadDemo,
                     ExportUnreadableDemo, ExportOnlyBadPerf, ExportCorrupt} ]

(***************************************************************************)
(* Inputs of the text fallback and of the parser                           *)
(***************************************************************************)
\* the counters of the fallback and the labels it searches, lines 500-508
FallbackLabels ==
    << [field |-> "impressions",  label |-> "Scoperta"],
       [field |-> "unique_views", label |-> "Impressioni"],
       [field |-> "reactions",    label |-> "Reazioni"],
       [field |-> "comments",     label |-> "Commenti"],
       [field |-> "reposts",      label |-> "Diffusioni post"],
       [field |-> "saves",        label |-> "Salvataggi"],
       [field |-> "sends",        label |-> "Invii su LinkedIn"] >>

\* the two core counters without a lookup in the fallback, under the labels
\* the analytics page and the export give them
OtherLabels ==
    << [field |-> "profile_visits",   label |-> "Visitatori del profilo"],
       [field |-> "followers_gained", label |-> "Follower acquisiti"] >>

CounterLabels == FallbackLabels \o OtherLabels

\* the counters searched with ^ under re.MULTILINE by after()
AfterFields == {"reactions", "comments", "reposts", "saves", "sends"}

MaxLead == 3

RECURSIVE Sevens(_)
Sevens(n) == IF n = 0 THEN "" ELSE "7" \o Sevens(n - 1)

\* numbers as the page prints them: plain, grouped, decimal
NumPool ==
    { Sevens(n) \o t : n \in 1..MaxLead,
                       t \in {"", ".234", ",234", ".5", ",50", ".234.567", ".2345"} }

\* a page text around one label and one number
FillInputs ==
    [ pre  : {"", "Statistiche\n", "Le "},
      c    : 1..Len(CounterLabels),
      gap  : {"\n", "\n\n", " "},
      num  : NumPool,
      post : {"", "\nAltro"} ]

FillText(a) == a.pre \o CounterLabels[a.c].label \o a.gap \o a.num \o a.post

MaxPerfRows == 2

PerfRowPool ==
    { Row2("Impressioni", "1.234"), Row2("Reazioni", "12"),
      << Cell("Reazioni in evidenza") >>, Row2("Qualifica principale", "CEO") }

PerfSheets ==
    { Sheet(rows) : rows \in ListsUpTo(PerfRowPool, MaxPerfRows) }
        \cup {Sheet(PerfRowsLocale), Sheet(PerfRowsOneColumn), BrokenSheet}

DemoSheets == {Sheet(DemoRowsFull), Sheet(DemoRowsTwoColumns), Sheet(<< >>), BrokenSheet}

ParseInputs ==
    { Workbook(SheetNames, << r, d >>) : r \in PerfSheets, d \in DemoSheets }
        \cup { Workbook(<< "RENDIMENTO" >>, << r >>) : r \in PerfSheets }
        \cup { ExportCorrupt }

(***************************************************************************)
(* Specifications                                                          *)
(***************************************************************************)
InitLocals ==
    /\ i = 0
    /\ records = << >>
    /\ result = InitialResult("")
    /\ a_url = ""
    /\ page = NoPage
    /\ download = NoFile
    /\ trail = << >>
    /\ delays = 0
    /\ gidx = 1
    /\ success_count = 0
    /\ files = {}
    /\ counters_read = {}

InitScrape ==
    /\ pc = "idle"
    /\ InitLocals
    /\ op = "none"
    /\ arg = ""
    /\ ret = ""

\* a batch of up to MaxUrls URLs
Init ==
    /\ urls \in ListsUpTo(InputUrls, MaxUrls)
    /\ web = SmallWeb
    /\ InitScrape

\* one URL, every page and export file
InitPost ==
    /\ urls \in { << u >> : u \in InputUrls \cup {UrlPlain} }
    /\ web = RichWeb
    /\ InitScrape

Next ==
    \/ GuiClick
    \/ Launch
    \/ VisitPost
    \/ ResolveAnalytics
    \/ ReadPostText
    \/ GotoAnalytics
    \/ ReadAnalytics
    \/ FindExport
    \/ ClickExport
    \/ SaveDownload
    \/ ParseExport
    \/ AppendRecord
    \/ GuiRecord
    \/ GuiFinish

Spec == Init /\ [][Next]_vars

SpecPost == InitPost /\ [][Next]_vars

\* no browser: a function is applied to an input
InitPure ==
    /\ urls = << >>
    /\ web = SmallWeb
    /\ pc = "pure"
    /\ InitLocals
    /\ ret = ""

\* _fill_stats_from_text on a record as scrape_post creates it
FillStats ==
    /\ op = "fill"
    /\ ret' = FillStatsFromText(InitialResult(""), FillText(arg))
    /\ op' = "filled"
    /\ UNCHANGED arg
    /\ UNCHANGED scrapeVars

InitFill ==
    /\ InitPure
    /\ op = "fill"
    /\ arg \in FillInputs

NextFill == FillStats

SpecFill == InitFill /\ [][NextFill]_vars

\* parse_linkedin_export on an export file
ParseFile ==
    /\ op = "parse"
    /\ ret' = parse_linkedin_export(arg)
    /\ op' = "parsed"
    /\ UNCHANGED arg
    /\ UNCHANGED scrapeVars

InitParse ==
    /\ InitPure
    /\ op = "parse"
    /\ arg \in ParseInputs

NextParse == ParseFile

SpecParse == InitParse /\ [][NextParse]_vars

\* extract_post_text_from_post_page on a page text
MaxBodyLen == 22

Sentence == "Oggi parliamo di dati e di analisi."

\* where the not-found indicator stands in the text: 0 nowhere, 1 at the start,
\* 2 inside the body, 3 after the end marker
PageInputs ==
    [ nav    : {"", "Home\nNotifiche\n"},
      header : {"", "Mario ha pubblicato questo post * 3g\nSegui\n\n\n"},
      ind    : {"Questa pagina non esiste", "Page not found"},
      at     : 0..3,
      n      : 0..MaxBodyLen,
      tail   : {"", "\nReazioni\n12", "\nMi piace\n"} ]

PageOf(a) ==
    (IF a.at = 1 THEN a.ind \o "\n" ELSE "")
        \o a.nav \o a.header
        \o Take(Sentence, a.n) \o (IF a.at = 2 THEN " " \o a.ind ELSE "")
        \o a.tail \o (IF a.at = 3 THEN "\n" \o a.ind ELSE "")

PageText ==
    /\ op = "page"
    /\ ret' = extract_post_text_from_post_page(PageOf(arg))
    /\ op' = "paged"
    /\ UNCHANGED arg
    /\ UNCHANGED scrapeVars

InitPage ==
    /\ InitPure
    /\ op = "page"
    /\ arg \in PageInputs

NextPage == PageText

SpecPage == InitPage /\ [][NextPage]_vars

\* get_post_id_from_url on an analytics URL, a post URL and an index
MaxIdDigits == 11

MaxIndex == 1

IdForms == {"urn:li:activity:", "activity-", "urn:li:ugcPost:"}

\* a part of a URL: nothing (n = 0) or a form followed by n digits d
IdParts(d) ==
    { [form |-> "", n |-> 0, d |-> d] }
        \cup [ form : IdForms, n : (ActivityIdLen - 1)..MaxIdDigits, d : {d} ]

RECURSIVE DigitRun(_, _)
DigitRun(d, n) == IF n = 0 THEN "" ELSE d \o DigitRun(d, n - 1)

PartText(part) == part.form \o DigitRun(part.d, part.n)

\* the analytics URL: empty, without identifier, or with a canonical one
IdAnalytics ==
    { "", "https://www.linkedin.com/analytics/",
      SummaryBase \o "urn:li:activity:" \o DigitRun("5", ActivityIdLen) \o "/" }

IdInputs ==
    [ an : IdAnalytics, p1 : IdParts("7"), p2 : IdParts("6"), idx : 0..MaxIndex ]

IdPostUrl(a) ==
    "https://www.linkedin.com/feed/" \o PartText(a.p1) \o "/" \o PartText(a.p2)

PostId ==
    /\ op = "id"
    /\ ret' = get_post_id_from_url(arg.an, IdPostUrl(arg), arg.idx)
    /\ op' = "id_done"
    /\ UNCHANGED arg
    /\ UNCHANGED scrapeVars

InitIds ==
    /\ InitPure
    /\ op = "id"
    /\ arg \in IdInputs

NextIds == PostId

SpecIds == InitIds /\ [][NextIds]_vars

\* extract_post_text on the text of an analytics page whose post text is
\* rendered once or twice
MaxRepeat == 33

LongSentence == "Oggi parliamo di dati e di analisi con un esempio."

TextInputs ==
    [ header : {"", "Mario ha pubblicato questo post * 3g\n"},
      n      : 1..MaxRepeat,
      twice  : BOOLEAN,
      sep    : {"", "\n"},
      stats  : {"12", "1.234\nImpressioni\n987"} ]

Rendered(a) ==
    Take(LongSentence, a.n)
        \o (IF a.twice THEN a.sep \o Take(LongSentence, a.n) ELSE "")

TextOf(a) == a.header \o Rendered(a) \o "\nScoperta\n" \o a.stats

AnalyticsPostText ==
    /\ op = "text"
    /\ ret' = extract_post_text(TextOf(arg))
    /\ op' = "text_done"
    /\ UNCHANGED arg
    /\ UNCHANGED scrapeVars

InitText ==
    /\ InitPure
    /\ op = "text"
    /\ arg \in TextInputs

NextText == AnalyticsPostText

SpecText == InitText /\ [][NextText]_vars

\* clean_scraped_post_data on a body of lines, or on one long line
MaxLines == 3

MaxTitleBody == 153

TaggedLine == "Great read #ai #ml today"

TagsOnlyLine == "#dati #ai #dati"

FooterLine == "Anna e 12 altre persone"

CleanLinePool ==
    { TaggedLine, TagsOnlyLine, "Testo senza tag.", "Costo # 5",
      HeaderLine, FooterLine, "" }

CleanInputs ==
    { a \in [ lines : ListsUpTo(CleanLinePool, MaxLines),
              n     : {0, 1} \cup ((TitleCut - 1)..MaxTitleBody),
              dot   : {0, 1} \cup ((TitleCut + 1)..(TitleMax + 2)) ] :
        /\ a.dot <= a.n
        /\ a.n = 0 \/ a.lines = << >> }

RECURSIVE Rep(_, _)
Rep(c, n) ==
    IF n <= 0 THEN ""
    ELSE IF n = 1 THEN c
    ELSE Rep(c, n \div 2) \o Rep(c, n - n \div 2)

\* n characters, the one at position dot a full stop
Filler(n, dot) ==
    IF dot = 0 THEN Rep("a", n)
    ELSE Rep("a", dot - 1) \o "." \o Rep("a", n - dot)

PostDataOf(a) ==
    [ title |-> "", body |-> Join(a.lines, "\n") \o Filler(a.n, a.dot) ]

CleanPost ==
    /\ op = "clean"
    /\ ret' = clean_scraped_post_data(PostDataOf(arg))
    /\ op' = "clean_done"
    /\ UNCHANGED arg
    /\ UNCHANGED scrapeVars

InitClean ==
    /\ InitPure
    /\ op = "clean"
    /\ arg \in CleanInputs

NextClean == CleanPost

SpecClean == InitClean /\ [][NextClean]_vars

\* parse_linkedin_export on a performance sheet of labelled rows, and on the
\* same sheet with two neighbouring rows exchanged
MaxSheetRows == 3

LabelRowPool ==
    { [label |-> "Reazioni",             cell |-> Cell("12")],
      [label |-> "reazioni ",            cell |-> Cell("15")],
      [label |-> "Reactions",            cell |-> Cell("7")],
      [label |-> "Reazioni in evidenza", cell |-> NaN],
      [label |-> "Commenti",             cell |-> Cell("nan")],
      [label |-> "Qualifica principale", cell |-> Cell("CEO")] }

PerfInputs ==
    { a \in [ rows : ListsUpTo(LabelRowPool, MaxSheetRows),
              a    : 0..MaxSheetRows,
              b    : 0..MaxSheetRows ] :
        \/ a.a = 0 /\ a.b = 0
        \/ 1 <= a.a /\ a.b = a.a + 1 /\ a.b <= Len(a.rows) }

\* rows with the rows at a and b exchanged
Exchange(rows, a, b) ==
    [ n \in 1..Len(rows) |->
        IF n = a THEN rows[b] ELSE IF n = b THEN rows[a] ELSE rows[n] ]

PerfBook(rows) ==
    Workbook(<< "RENDIMENTO" >>,
             << Sheet([ n \in 1..Len(rows) |-> << Cell(rows[n].label), rows[n].cell >> ]) >>)

ParsePerf ==
    /\ op = "perf"
    /\ ret' = [ fields |-> parse_linkedin_export(PerfBook(arg.rows)),
                moved  |-> parse_linkedin_export(
                               PerfBook(Exchange(arg.rows, arg.a, arg.b))) ]
    /\ op' = "perf_done"
    /\ UNCHANGED arg
    /\ UNCHANGED scrapeVars

InitPerf ==
    /\ InitPure
    /\ op = "perf"
    /\ arg \in PerfInputs

NextPerf == ParsePerf

SpecPerf == InitPerf /\ [][NextPerf]_vars

\* parse_linkedin_export on a demographics table, and on the same table after
\* one row is removed, exchanged with the next one, or inserted; every row
\* carries the field it belongs to and the entry it is listed as
MaxDemoRows == 3

DemoRowPool ==
    { [cat |-> "Qualifica", val |-> Cell("Founder"), pct |-> "0.2",
       field |-> "demo_role", part |-> "Founder (20.0%)"],
      [cat |-> "Qualifica", val |-> NaN, pct |-> "0.1",
       field |-> "demo_role", part |-> ""],
      [cat |-> "Azienda", val |-> Cell("ACME"), pct |-> "0.275",
       field |-> "demo_company", part |-> "ACME (27.5%)"],
      [cat |-> "Dimensioni azienda", val |-> Cell("11-50"), pct |-> "0.5",
       field |-> "demo_company_size", part |-> "11-50 (50.0%)"] }

InsertedRows ==
    { r \in DemoRowPool : r.val /= NaN /\ r.field \in {"demo_role", "demo_company"} }

DemoEdits ==
    [ kind : {"none"}, at : {0}, row : {<< >>} ]
        \cup [ kind : {"remove", "exchange"}, at : 1..MaxDemoRows, row : {<< >>} ]
        \cup [ kind : {"insert"}, at : 1..(MaxDemoRows + 1), row : InsertedRows ]

DemoInputs ==
    { a \in [ rows : ListsUpTo(DemoRowPool, MaxDemoRows), edit : DemoEdits ] :
        /\ a.edit.kind = "remove" => a.edit.at <= Len(a.rows)
        /\ a.edit.kind = "exchange" => a.edit.at < Len(a.rows)
        /\ a.edit.kind = "insert" => a.edit.at <= Len(a.rows) + 1 }

\* the rows of a after its edit
EditedRows(a) ==
    LET rows == a.rows
        at == a.edit.at
    IN  CASE a.edit.kind = "remove" ->
                SubSeq(rows, 1, at - 1) \o SubSeq(rows, at + 1, Len(rows))
          [] a.edit.kind = "exchange" -> Exchange(rows, at, at + 1)
          [] a.edit.kind = "insert" ->
                SubSeq(rows, 1, at - 1) \o << a.edit.row >> \o SubSeq(rows, at, Len(rows))
          [] OTHER -> rows

DemoBook(rows) ==
    Workbook(SheetNames,
             << Sheet(PerfRowsLocale),
                Sheet(<< Row3("Categoria", "Valore", "%") >>
                      \o [ n \in 1..Len(rows) |->
                             << Cell(rows[n].cat), rows[n].val, Cell(rows[n].pct) >> ]) >>)

ParseDemo ==
    /\ op = "demo"
    /\ ret' = [ before |-> parse_linkedin_export(DemoBook(arg.rows)),
                after  |-> parse_linkedin_export(DemoBook(EditedRows(arg))) ]
    /\ op' = "demo_done"
    /\ UNCHANGED arg
    /\ UNCHANGED scrapeVars

InitDemo ==
    /\ InitPure
    /\ op = "demo"
    /\ arg \in DemoInputs

NextDemo == ParseDemo

SpecDemo == InitDemo /\ [][NextDemo]_vars

\* the three text functions on the same raw text
EdgeTexts ==
    { "", " ", "\n", "\n\n\n", "\r\n", "#", "# \n#", ".", "...",
      "Scoperta", "\nScoperta\n", "\nScoperta\n\nScoperta\n",
      "ha pubblicato questo post", " ha pubblicato questo post * ",
      "ha pubblicato questo post *\n", "hashtag", "...visualizza altro",
      HeaderLine, HeaderLine \o "\n", OthersMark, "114\n" \o FooterLine,
      FooterLine, "Il documento e stato caricato",
      "Questa pagina non esiste", "Page not found", "Consiglia", "\nConsiglia\n",
      "12 commenti", "Reazioni\n", "#tag", "#tag\n#tag" }

TextFunctions ==
    /\ op = "edge"
    /\ ret' = [ page  |-> extract_post_text_from_post_page(arg),
                text  |-> extract_post_text(arg),
                clean |-> clean_scraped_post_data([ title |-> "", body |-> arg ]) ]
    /\ op' = "edge_done"
    /\ UNCHANGED arg
    /\ UNCHANGED scrapeVars

InitEdge ==
    /\ InitPure
    /\ op = "edge"
    /\ arg \in EdgeTexts

\* the five functions of the core, each on its inputs
InitCore ==
    \/ InitPost
    \/ InitParse
    \/ InitPage
    \/ InitText
    \/ InitClean
    \/ InitEdge

NextCore ==
    \/ Next
    \/ ParseFile
    \/ PageText
    \/ AnalyticsPostText
    \/ CleanPost
    \/ TextFunctions

SpecCore == InitCore /\ [][NextCore]_vars

\* extract_post_text_from_post_page on a page whose author header is followed
\* by accessory lines and by the lines of the post
MaxBodyLines == 4

BodyLine(k) == "Riga numero " \o ToString(k) \o " del post."

HeaderInputs ==
    [ nav   : {"", "Home\nNotifiche\n"},
      time  : {"3g", "2 sett. * Modificato"},
      acc   : 0..AccessoryLines,
      lines : 1..MaxBodyLines,
      tail  : {"", "\nReazioni\n12", "\nMi piace\n"} ]

\* the lines of the post, as the page shows them
BodyOf(a) == Join([ k \in 1..a.lines |-> BodyLine(k) ], "\n")

HeaderPageOf(a) ==
    a.nav \o "Mario ha pubblicato questo post * " \o a.time \o "\n"
        \o Join([ k \in 1..a.acc |-> "Segui\n" ], "")
        \o BodyOf(a) \o a.tail

HeaderPageText ==
    /\ op = "header"
    /\ ret' = extract_post_text_from_post_page(HeaderPageOf(arg))
    /\ op' = "header_done"
    /\ UNCHANGED arg
    /\ UNCHANGED scrapeVars

InitHeader ==
    /\ InitPure
    /\ op = "header"
    /\ arg \in HeaderInputs

NextHeader == HeaderPageText

SpecHeader == InitHeader /\ [][NextHeader]_vars

\* the scan of lines 147-161 over the rows of a performance sheet, one row at
\* a step, and the six fields read from the rows it buffered
MaxScanRows == 4

ScanRowPool ==
    { [lab |-> Cell("Reazioni in evidenza"), val |-> NaN],
      [lab |-> Cell("Commenti in evidenza"), val |-> NaN],
      [lab |-> Cell("Qualifica principale"), val |-> Cell("CEO")],
      [lab |-> Cell("Qualifica principale"), val |-> NaN],
      [lab |-> Cell("Settore principale"),   val |-> Cell("IT")],
      [lab |-> NaN,                          val |-> Cell("CTO")] }

ScanBook(rows) ==
    Workbook(<< "RENDIMENTO" >>,
             << Sheet([ n \in 1..Len(rows) |-> << rows[n].lab, rows[n].val >> ]) >>)

\* one turn of the loop of line 147
ScanStep ==
    /\ op = "scan"
    /\ ret.k < Len(arg)
    /\ ret' = [ret EXCEPT !.k = @ + 1,
                          !.st = ScanRow(@, << arg[ret.k + 1].lab, arg[ret.k + 1].val >>)]
    /\ UNCHANGED << op, arg >>
    /\ UNCHANGED scrapeVars

\* lines 169-174, as parse_linkedin_export returns them
ScanFields ==
    /\ op = "scan"
    /\ ret.k = Len(arg)
    /\ ret' = [ret EXCEPT !.fields = parse_linkedin_export(ScanBook(arg))]
    /\ op' = "scan_done"
    /\ UNCHANGED arg
    /\ UNCHANGED scrapeVars

InitScan ==
    /\ urls = << >>
    /\ web = SmallWeb
    /\ pc = "pure"
    /\ InitLocals
    /\ op = "scan"
    /\ arg \in ListsUpTo(ScanRowPool, MaxScanRows)
    /\ ret = [k |-> 0, st |-> ScanStart, fields |-> << >>]

NextScan ==
    \/ ScanStep
    \/ ScanFields

SpecScan == InitScan /\ [][NextScan]_vars

\* the four strategies of scrape_post on a post page that offers any of the
\* link, the slug in its URL and the identifier in its HTML
LinkTarget == "/analytics/post-summary/urn:li:activity:7111111111111/"

ResolveInputs ==
    [ href      : {"", LinkTarget, "https://www.linkedin.com" \o LinkTarget},
      url       : {UrlPlain,
                   "https://www.linkedin.com/posts/mario_dati-activity-7222222222-abcd",
                   "https://www.linkedin.com/posts/mario_dati-activity-722222222-abcd"},
      html      : {"<html></html>", "<meta content=urn:li:activity:7333333333333>"},
      post_url  : {UrlUgc, UrlSlug, UrlPlain},
      linkOk    : BOOLEAN,
      contentOk : BOOLEAN ]

ResolvePage(a) ==
    [ url |-> a.url, href |-> a.href, html |-> a.html, text |-> PostText,
      export_visible |-> FALSE ]

ResolveChain ==
    /\ op = "resolve"
    /\ ret' = ResolvedUrl(ResolvePage(arg), arg.post_url, arg.linkOk, arg.contentOk)
    /\ op' = "resolved"
    /\ UNCHANGED arg
    /\ UNCHANGED scrapeVars

InitResolve ==
    /\ InitPure
    /\ op = "resolve"
    /\ arg \in ResolveInputs

NextResolve == ResolveChain

SpecResolve == InitResolve /\ [][NextResolve]_vars

\* the boundaries of clean_scraped_post_data on a body of whole lines
MaxCleanLines == 4

CountLine == "114"

UploadedLine == " Il documento e stato caricato"

BoundLinePool ==
    { "Testo senza tag.", CountLine, "", HeaderLine, FooterLine, UploadedLine }

BoundInputs == ListsUpTo(BoundLinePool, MaxCleanLines) \ { << >> }

\* lines 621-643: start_index and end_index (0-based, as in the source) and
\* cleaned_body_lines
CleanBounds ==
    /\ op = "bounds"
    /\ LET body  == Join(arg, "\n")
           lines == SplitLines(body)
           start == StartIndex(lines)
           end   == TrimEnd(lines, start, FooterIndex(lines, start))
       IN  ret' = [ start_index |-> start - 1,
                    end_index   |-> end - 1,
                    cleaned_body_lines |-> CleanedLines(body) ]
    /\ op' = "bounds_done"
    /\ UNCHANGED arg
    /\ UNCHANGED scrapeVars

InitBounds ==
    /\ InitPure
    /\ op = "bounds"
    /\ arg \in BoundInputs

NextBounds == CleanBounds

SpecBounds == InitBounds /\ [][NextBounds]_vars

(***************************************************************************)
(* Properties                                                              *)
(***************************************************************************)
\* the step of scrape_post named step ended with outcome
HasStep(step, outcome) ==
    \E n \in 1..Len(trail) : trail[n] = Step(step, outcome)

\* scrape_post is about to return result
Returning == pc = "append"

\* scrape_urls has returned records
Returned == pc \in {"returned", "gui_done"} /\ urls /= << >>

\* C1: scrape_urls returns one record per input URL, in input order, and a
\* failure of one URL never ends the batch: while the loop runs the records
\* appended are those of the URLs before the current one, whatever their
\* error, and scrape_urls raises only before the first URL is visited
C1_OneRecordPerUrl ==
    /\ Returned =>
        /\ Len(records) = Len(urls)
        /\ \A k \in 1..Len(urls) : records[k].post_url = urls[k]
    /\ pc = "raised" => (i = 0 /\ records = << >>)
    /\ (i >= 1 /\ ~Returned /\ pc /= "raised") =>
        /\ i <= Len(urls)
        /\ Len(records) = i - 1
        /\ \A k \in 1..(i - 1) : records[k].post_url = urls[k]

\* a batch returned after its first post failed and its second succeeded
C1_Witness ==
    /\ pc = "returned"
    /\ Len(urls) = 2
    /\ Len(records) = 2
    /\ records[1].error /= ""
    /\ records[2].error = ""
    /\ records[2].post_url = urls[2]

\* C2 as stated: whenever a login redirect, a page-not-found page or a timeout
\* of any step (the visit of the post page included) occurred, the record
\* returned has a non-empty error
C2_AnyFailureSetsError ==
    Returning =>
        ( ( \/ HasStep("goto_post", "login_redirect")
            \/ HasStep("read_post_text", "dead_page")
            \/ \E n \in 1..Len(trail) : trail[n].outcome = "timeout" )
          => result.error /= "" )

\* the steps whose timeout reaches the outer except clauses of scrape_post
OuterSteps == {"goto_analytics", "read_analytics_text", "click_export"}

\* C2 amended: the record returned has a non-empty error whenever the login
\* redirect or the page-not-found text was detected on the post page, or a
\* timeout occurred while opening the analytics page, reading its text or
\* waiting for the download
C2_DetectedFailureSetsError ==
    Returning =>
        ( ( \/ HasStep("goto_post", "login_redirect")
            \/ HasStep("read_post_text", "dead_page")
            \/ \E n \in 1..Len(trail) :
                   trail[n].outcome = "timeout" /\ trail[n].step \in OuterSteps )
          => result.error /= "" )

\* the download timed out after a post page that was read without failure
C2_Witness ==
    /\ Returning
    /\ HasStep("read_post_text", "ok")
    /\ HasStep("click_export", "timeout")
    /\ result.error = ErrTimeout

\* the analytics page was opened and its text read, and no export file saved
NoExportFile ==
    /\ HasStep("goto_analytics", "ok")
    /\ HasStep("read_analytics_text", "ok")
    /\ ~HasStep("save_download", "ok")

\* C3 as stated: whenever the analytics page was loaded and no export file
\* obtained (no export control, or the click or the download failed or timed
\* out), the record returned holds what _fill_stats_from_text reads from the
\* text of the analytics page
C3_FallbackWithoutExport ==
    (Returning /\ NoExportFile) =>
        /\ HasStep("text_fallback", "ok")
        /\ result = FillStatsFromText(result, page.text)

\* a matched number of one separator before its last three digits
IsGrouped(num) ==
    /\ Len(num) >= 5
    /\ CharAt(num, Len(num) - 3) \in Separators
    /\ \A p \in (1..Len(num)) \ {Len(num) - 3} : IsDigit(CharAt(num, p))

\* C4 as stated: for each of the seven counters the fallback fills, a matched
\* number with '.' or ',' before its last three digits is stored without the
\* separator
C4_GroupingStripped ==
    op = "filled" =>
        \A c \in 1..Len(FallbackLabels) :
            ( /\ arg.c = c
              /\ IsGrouped(arg.num)
              /\ ret[FallbackLabels[c].field] /= "" )
            => ret[FallbackLabels[c].field] = RemoveAt(arg.num, 1, {Len(arg.num) - 3})

\* C5 as stated: for each of the nine core counters, whenever the text holds
\* the counter's label followed by a number the counter is non-empty after
\* the fallback
C5_NineCounters ==
    op = "filled" => ret[CounterLabels[arg.c].field] /= ""

\* C5 amended: the fallback looks up seven counters.  impressions and
\* unique_views are non-empty whenever the text holds "Scoperta", resp.
\* "Impressioni", followed by line breaks and a number; reactions, comments,
\* reposts, saves and sends whenever a line starts with their label and the
\* number follows after the line breaks; profile_visits and followers_gained
\* are never filled
C5_SevenCounters ==
    op = "filled" =>
        LET field == CounterLabels[arg.c].field
        IN  /\ ret.profile_visits = ""
            /\ ret.followers_gained = ""
            /\ ( /\ arg.c <= Len(FallbackLabels)
                 /\ arg.gap \in {"\n", "\n\n"}
                 /\ field \in AfterFields => arg.pre \in {"", "Statistiche\n"} )
               => ret[field] /= ""

\* the label of a counter of after() on a later line of the text
C5_Witness ==
    /\ op = "filled"
    /\ CounterLabels[arg.c].field = "saves"
    /\ arg.pre = "Statistiche\n"
    /\ arg.gap = "\n\n"
    /\ arg.num = "77"
    /\ ret.saves = "77"

\* the performance sheet of the file holds the row (label, value)
HoldsRow(xlsx, label, value) ==
    /\ xlsx.valid
    /\ \E r \in 1..Len(xlsx.sheets[RendimentoKey(xlsx.names)].rows) :
        xlsx.sheets[RendimentoKey(xlsx.names)].rows[r] = Row2(label, value)

\* the export file was saved and parsed
Parsed == Returning /\ HasStep("parse_export", "ok")

\* C6 as stated: when the export file is obtained and its performance sheet
\* holds the row Impressioni / 1.234, the record stores impressions = 1234
C6_ExportSeparatorRemoved ==
    (Parsed /\ HoldsRow(download, "Impressioni", "1.234"))
        => result.impressions = "1234"

\* C6 amended: when the export file is obtained and its performance sheet
\* holds the row Impressioni / 1.234, the record stores the value as the sheet
\* holds it, impressions = 1.234 with the separator kept, or the empty string
\* together with a parse_error when the workbook could not be read
C6_ExportValueVerbatim ==
    (Parsed /\ HoldsRow(download, "Impressioni", "1.234"))
        => \/ result.impressions = "1.234"
           \/ "parse_error" \in DOMAIN result /\ result.impressions = ""

\* a workbook of two sheets parsed into a record
C6_Witness ==
    /\ Parsed
    /\ download = ExportSmall
    /\ result.impressions = "1.234"
    /\ result.demo_company /= ""

\* one sheet is absent or malformed, the other one is well formed
DemoFailure(xlsx) ==
    /\ xlsx.valid
    /\ xlsx.sheets[1].readable
    /\ xlsx.sheets[1].rows = PerfRowsLocale
    /\ Len(xlsx.names) = 1 \/ xlsx.sheets[2] \in {BrokenSheet, Sheet(DemoRowsTwoColumns)}

PerfFailure(xlsx) ==
    /\ xlsx.valid
    /\ Len(xlsx.names) = 2
    /\ xlsx.sheets[1] \in {BrokenSheet, Sheet(PerfRowsOneColumn)}
    /\ xlsx.sheets[2] = Sheet(DemoRowsFull)

\* C7 as stated: if one of the two sheets is absent or malformed,
\* parse_linkedin_export attaches parse_error and returns every field of the
\* other sheet: the performance fields after a failure of the demographics
\* sheet, the demographic fields after a failure of the performance sheet
C7_OtherSheetKept ==
    op = "parsed" =>
        /\ DemoFailure(arg) =>
            /\ "parse_error" \in DOMAIN ret
            /\ Get(ret, "impressions", "") = "1.234"
            /\ Get(ret, "reactions", "") = "1,050"
        /\ PerfFailure(arg) =>
            /\ "parse_error" \in DOMAIN ret
            /\ Get(ret, "demo_company", "") /= ""
            /\ Get(ret, "demo_seniority", "") /= ""

DemoFields ==
    {"demo_seniority", "demo_role", "demo_industry", "demo_company_size",
     "demo_location", "demo_company"}

\* C8: when the export file has no demographics sheet, the six demographic
\* fields of the record are empty and the performance fields are those of the
\* performance sheet
C8_NoDemographicsSheet ==
    (Parsed /\ download.valid /\ Len(download.names) = 1) =>
        /\ \A f \in DemoFields : result[f] = ""
        /\ download.sheets[1].rows = PerfRowsLocale =>
            /\ result.impressions = "1.234"
            /\ result.reactions = "1,050"
            /\ "parse_error" \notin DOMAIN result

\* the workbook with the performance sheet only
C8_Witness ==
    /\ Parsed
    /\ download = ExportNoDemo
    /\ result.reactions = "1,050"
    /\ result.demo_company = ""

\* C9: on every return path of scrape_post the post_url of the record is the
\* input URL, whatever the URL row of the export file holds
C9_InputUrlKept ==
    /\ Returning => result.post_url = urls[i]
    /\ \A k \in 1..Len(records) : records[k].post_url = urls[k]

\* the export file names another URL than the input
C9_Witness ==
    /\ Parsed
    /\ "post_url_export" \in DOMAIN result
    /\ result.post_url_export /= ""
    /\ result.post_url_export /= urls[i]
    /\ result.post_url = urls[i]

\* C10: the handler reads counters, writes files and counts a success only
\* for records with an empty error
C10_ErrorRecordsSkipped ==
    /\ \A f \in files : Get(records[f.record], "error", "") = ""
    /\ \A k \in counters_read : Get(records[k], "error", "") = ""
    /\ success_count =
         Cardinality({ k \in 1..(gidx - 1) : Get(records[k], "error", "") = "" })
    /\ Cardinality(files) <= 3 * success_count

\* the handler is done with a batch of a failed and a saved record
C10_Witness ==
    /\ pc = "gui_done"
    /\ Len(records) = 2
    /\ records[1].error /= ""
    /\ records[2].error = ""
    /\ success_count = 1
    /\ \E f \in files : f.record = 2

\* C15: extract_post_text_from_post_page returns the sentinel for every page
\* text that holds a not-found indicator, wherever the indicator stands and
\* whatever header and end markers the text holds
C15_NotFoundSentinel ==
    (op = "paged" /\ Contains(PageOf(arg), arg.ind)) => ret = PageNotFound

\* the indicator after the end marker of a page with an author header
C15_Witness ==
    /\ op = "paged"
    /\ arg.at = 3
    /\ arg.header /= ""
    /\ arg.tail = "\nReazioni\n12"
    /\ arg.n = MaxBodyLen
    /\ ret = PageNotFound

\* C16: extract_post_text_from_post_page never returns a post body shorter
\* than 20 characters: for a page text without not-found indicator the result
\* is empty or has 20 characters at least; after an author header and its
\* three accessory lines it is empty when the stripped body is shorter than 20
\* characters and the stripped body otherwise
C16_NoShortBody ==
    (op = "paged" /\ arg.at = 0) =>
        /\ ret = "" \/ Len(ret) >= 20
        /\ (arg.header /= "" /\ Len(Strip(Take(Sentence, arg.n))) < 20) => ret = ""
        /\ (arg.header /= "" /\ Len(Strip(Take(Sentence, arg.n))) >= 20)
              => ret = Strip(Take(Sentence, arg.n))

\* a body of 19 characters after the author header
C16_Witness ==
    /\ op = "paged"
    /\ arg.at = 0
    /\ arg.header /= ""
    /\ arg.n = 19
    /\ ret = ""

\* the parts of the URL the identifier is read from: the analytics URL when it
\* is not empty, the post URL otherwise
ChosenParts(a) ==
    IF a.an = "" THEN << a.p1, a.p2 >>
    ELSE IF a.an = "https://www.linkedin.com/analytics/" THEN << >>
    ELSE << [form |-> "urn:li:activity:", n |-> ActivityIdLen, d |-> "5"] >>

\* the first part of the chosen URL of the given form with min digits at least
FirstPart(a, form, min) ==
    LET parts == ChosenParts(a)
        hit == { k \in 1..Len(parts) : parts[k].form = form /\ parts[k].n >= min }
    IN  IF hit = {} THEN 0 ELSE CHOOSE k \in hit : \A m \in hit : k <= m

\* the identifier when a form counts from min digits on
ExpectedId(a, min) ==
    LET parts == ChosenParts(a)
        urn == FirstPart(a, "urn:li:activity:", min)
        slug == FirstPart(a, "activity-", min)
    IN  IF urn /= 0 THEN "urn_li_activity_" \o DigitRun(parts[urn].d, parts[urn].n)
        ELSE IF slug /= 0
        THEN "urn_li_activity_" \o DigitRun(parts[slug].d, parts[slug].n)
        ELSE "scraped_" \o NowStamp \o "_" \o ToString(a.idx)

\* C20 as stated: the identifier is urn_li_activity_<d> for the digit run of
\* the canonical form when the chosen URL holds one, else for the digit run
\* of the legacy slug form, and scraped_<stamp>_<index> only when the URL
\* holds neither form
C20_IdOfAnyDigitRun ==
    op = "id_done" => ret = ExpectedId(arg, 1)

\* C20 amended: the two forms count only with a run of at least 10 digits;
\* the identifier is urn_li_activity_<d> for the first such canonical form of
\* the chosen URL, else for the first such slug form, and
\* scraped_<stamp>_<index> when the URL holds neither form with 10 digits
C20_IdOfTenDigits ==
    op = "id_done" => ret = ExpectedId(arg, ActivityIdLen)

\* a slug form before a canonical form, both of 10 digits, in the post URL
C20_Witness ==
    /\ op = "id_done"
    /\ arg.an = ""
    /\ arg.p1.form = "activity-" /\ arg.p1.n = ActivityIdLen
    /\ arg.p2.form = "urn:li:activity:" /\ arg.p2.n = ActivityIdLen
    /\ ret = "urn_li_activity_6666666666"

KeptLines(lines) ==
    LET hs == { k \in 1..Len(lines) : lines[k] = HeaderLine }
        start == IF hs = {} THEN 1 ELSE (CHOOSE k \in hs : \A m \in hs : k <= m) + 1
        fs == { k \in start..Len(lines) : lines[k] = FooterLine }
        end == IF fs = {} THEN Len(lines) ELSE (CHOOSE k \in fs : \A m \in fs : k <= m) - 1
    IN  SubSeq(lines, start, end)

\* the #word tokens of a line of the pool, each once, in the order they are met
PoolTags(line) ==
    CASE line = TaggedLine -> << "#ai", "#ml" >>
      [] line = TagsOnlyLine -> << "#dati", "#ai" >>
      [] OTHER -> << >>

\* a line of the pool without its #word tokens
PoolRest(line) ==
    CASE line = TaggedLine -> "Great read today"
      [] line = TagsOnlyLine -> ""
      [] OTHER -> line

\* the last of lines that holds a #word token (0 without one)
LastTagged(lines) ==
    LET hit == { k \in 1..Len(lines) : PoolTags(lines[k]) /= << >> }
    IN  IF hit = {} THEN 0 ELSE CHOOSE k \in hit : \A m \in hit : m <= k

\* C18: the tags are the #word tokens of the last cleaned line that holds
\* one, each once and in first-seen order; the body is the cleaned lines
\* with those tokens removed from that line only, every other line (its
\* '#' tokens included) as it was
C18_TagsFromOneLine ==
    (op = "clean_done" /\ arg.n = 0) =>
        LET kept == KeptLines(arg.lines)
            t == LastTagged(kept)
        IN  /\ ret.tags = (IF t = 0 THEN << >> ELSE PoolTags(kept[t]))
            /\ ret.body = JoinNonEmpty(
                   [ k \in 1..Len(kept) |->
                        IF k = t THEN PoolRest(kept[k]) ELSE kept[k] ])

C18_Witness ==
    /\ op = "clean_done"
    /\ arg.lines = << TaggedLine, "Costo # 5", TagsOnlyLine, "Testo senza tag." >>
         \/ arg.lines = << TaggedLine, TagsOnlyLine, "Costo # 5" >>
    /\ ret.tags = << "#dati", "#ai" >>
    /\ ret.body \in { "Great read #ai #ml today Costo # 5 Testo senza tag.",
                      "Great read #ai #ml today Costo # 5" }

\* C19: the title is the cleaned body of at most 150 characters; of a longer
\* body it is the text up to and including the first '.' when that is under
\* 150 characters, else the first 147 characters and "..."; it never exceeds
\* 150 characters, and of a longer body without '.' it has 150 characters
\* and ends in "..."
C19_TitleRule ==
    op = "clean_done" =>
        LET body == ret.body
            dots == { p \in 1..Len(body) : CharAt(body, p) = "." }
            first == IF dots = {} THEN 0 ELSE CHOOSE p \in dots : \A q \in dots : p <= q
        IN  /\ arg.lines = << >> =>
                /\ body = Filler(arg.n, arg.dot)
                /\ first = arg.dot
            /\ Len(body) <= 150 => ret.title = body
            /\ Len(body) > 150 =>
                ret.title = (IF first /= 0 /\ first < 150
                             THEN SubSeq(body, 1, first)
                             ELSE SubSeq(body, 1, 147) \o "...")
            /\ Len(ret.title) <= 150
            /\ (Len(body) > 150 /\ first = 0) =>
                /\ Len(ret.title) = 150
                /\ SubSeq(ret.title, 148, 150) = "..."

C19_Witness ==
    /\ op = "clean_done"
    /\ arg.n = 151
    /\ arg.dot = 0
    /\ Len(ret.body) = 151
    /\ ret.title = Rep("a", 147) \o "..."

\* the synonyms of the 12 canonical performance fields, in their listed order
Synonyms ==
    [ post_url_export  |-> << "url post", "post url" >>,
      post_date        |-> << "data di pubblicazione", "publication date" >>,
      post_time        |-> << "ora di pubblicazione", "publication time" >>,
      impressions      |-> << "impressioni", "impressions" >>,
      unique_views     |-> << "utenti raggiunti", "unique viewers", "reach" >>,
      profile_visits   |-> << "visitatori del profilo", "profile visitors" >>,
      followers_gained |-> << "follower acquisiti", "followers gained" >>,
      reactions        |-> << "reazioni", "reactions" >>,
      comments         |-> << "commenti", "comments" >>,
      reposts          |-> << "diffusioni", "reposts", "reshares" >>,
      saves            |-> << "salvataggi", "saves" >>,
      sends            |-> << "invii", "sends" >> ]

\* the labels of rows as the parser keys them
NormLabels(rows) == [ n \in 1..Len(rows) |-> Lower(Strip(rows[n].label)) ]

\* the first row, in row order, whose label contains the first of syns that
\* any label contains (0 when no label contains any)
MatchedRow(labels, syns) ==
    LET holds == [ k \in 1..Len(syns) |->
                     { n \in 1..Len(labels) : Contains(labels[n], syns[k]) } ]
        found == { k \in 1..Len(syns) : holds[k] /= {} }
    IN  IF found = {} THEN 0
        ELSE LET k == CHOOSE h \in found : \A m \in found : h <= m
             IN  CHOOSE n \in holds[k] : \A m \in holds[k] : n <= m

\* the last row that carries the label of row n
LastOfLabel(labels, n) ==
    CHOOSE l \in 1..Len(labels) :
        /\ labels[l] = labels[n]
        /\ \A m \in 1..Len(labels) : labels[m] = labels[n] => m <= l

\* the value of a cell, '' for an empty cell and for the textual null marker
ValueOf(cell) == IF cell.na \/ cell.s = "nan" THEN "" ELSE cell.s

\* C12 as stated: every canonical field is the value of the first row whose
\* label contains the first matching synonym, '' without a match or for the
\* null marker
C12_ValueOfFirstRow ==
    op = "perf_done" =>
        LET labels == NormLabels(arg.rows)
        IN  \A f \in DOMAIN Synonyms :
                LET n == MatchedRow(labels, Synonyms[f])
                IN  ret.fields[f] = (IF n = 0 THEN "" ELSE ValueOf(arg.rows[n].cell))

\* C12: every canonical field is the value stored under the label of the
\* first row whose label contains the first matching synonym, which is the
\* value of the last row carrying that label; '' without a match or for the
\* null marker
C12_ValueOfMatchedLabel ==
    op = "perf_done" =>
        LET labels == NormLabels(arg.rows)
        IN  \A f \in DOMAIN Synonyms :
                LET n == MatchedRow(labels, Synonyms[f])
                IN  ret.fields[f] =
                        (IF n = 0 THEN ""
                         ELSE ValueOf(arg.rows[LastOfLabel(labels, n)].cell))

C12_Witness ==
    /\ op = "perf_done"
    /\ arg.rows = << [label |-> "Reactions", cell |-> Cell("7")],
                     [label |-> "Reazioni", cell |-> Cell("12")],
                     [label |-> "Commenti", cell |-> Cell("nan")] >>
    /\ ret.fields.reactions = "12"
    /\ ret.fields.comments = ""
    /\ ret.fields.impressions = ""

\* C13: on a sheet whose labels are pairwise distinct the 12 canonical
\* fields are the same after two neighbouring rows are exchanged
C13_RowOrderIrrelevant ==
    (/\ op = "perf_done"
     /\ \A n, m \in 1..Len(arg.rows) :
            NormLabels(arg.rows)[n] = NormLabels(arg.rows)[m] => n = m) =>
        \A f \in DOMAIN Synonyms : ret.fields[f] = ret.moved[f]

\* the rows of a table that belong to field
RowsOf(rows, field) == SelectSeq(rows, LAMBDA r : r.field = field)

\* the entries of the first three rows of a table that belong to field
ExpectedDemo(rows, field) ==
    LET sub == RowsOf(rows, field)
        top == SubSeq(sub, 1, IF Len(sub) < 3 THEN Len(sub) ELSE 3)
    IN  Join(SelectSeq([ n \in 1..Len(top) |-> top[n].part ], LAMBDA e : e /= ""),
             " | ")

\* the number of entries a demographic field lists
EntryCount(s) ==
    IF s = "" THEN 0
    ELSE 1 + Cardinality({ p \in 1..Len(s) : PrefixAt(s, p, " | ") })

\* C14: every demographic field lists the entries of the first three rows of
\* its category, in table order, so at most 3; an edit of the table that
\* leaves the rows of the category and their order as they were leaves the
\* field as it was
C14_FirstThreeOfCategory ==
    op = "demo_done" =>
        \A f \in DemoFields :
            /\ ret.before[f] = ExpectedDemo(arg.rows, f)
            /\ ret.after[f] = ExpectedDemo(EditedRows(arg), f)
            /\ EntryCount(ret.before[f]) <= 3
            /\ EntryCount(ret.after[f]) <= 3
            /\ RowsOf(arg.rows, f) = RowsOf(EditedRows(arg), f) =>
                    ret.before[f] = ret.after[f]

C14_Witness ==
    /\ op = "demo_done"
    /\ arg.edit.kind = "insert"
    /\ arg.edit.at = 1
    /\ arg.edit.row.field = "demo_company"
    /\ Len(RowsOf(arg.rows, "demo_role")) = 3
    /\ ret.before.demo_role = "Founder (20.0%) | Founder (20.0%)"
    /\ ret.after.demo_role = ret.before.demo_role
    /\ ret.after.demo_company = "ACME (27.5%)"
    /\ ret.before.demo_company = ""

\* the keys parse_linkedin_export stores
ParseKeys ==
    DOMAIN Synonyms \cup DemoFields
        \cup { "reactions_top_role", "reactions_top_location", "reactions_top_industry",
               "comments_top_role", "comments_top_location", "comments_top_industry" }

\* a dict of strings over keys
IsDictOf(d, keys) ==
    /\ DOMAIN d \subseteq keys
    /\ \A k \in DOMAIN d : d[k] \in STRING

\* the dict clean_scraped_post_data returns
IsCleaned(d) ==
    /\ DOMAIN d = {"title", "body", "tags"}
    /\ d.title \in STRING
    /\ d.body \in STRING
    /\ \A n \in 1..Len(d.tags) : d.tags[n] \in STRING

\* C11: each of the five functions returns a value of its kind on every
\* input: parse_linkedin_export a dict of its fields, with parse_error when
\* the file, a sheet or a row cannot be read; the two extractors a string;
\* clean_scraped_post_data a title, a body and a list of tags; scrape_post
\* the record with all its fields
C11_DefinedValues ==
    /\ op = "parsed" =>
        /\ IsDictOf(ret, ParseKeys \cup {"parse_error"})
        /\ "parse_error" \in DOMAIN ret \/ DOMAIN Synonyms \subseteq DOMAIN ret
    /\ op \in {"paged", "text_done"} => ret \in STRING
    /\ op = "clean_done" => IsCleaned(ret)
    /\ op = "edge_done" =>
        /\ ret.page \in STRING
        /\ ret.text \in STRING
        /\ IsCleaned(ret.clean)
    /\ Returning =>
        /\ IsDictOf(result, DOMAIN InitialResult("") \cup {"parse_error", "post_url_export"})
        /\ DOMAIN InitialResult("") \subseteq DOMAIN result

\* a sheet whose rows have one cell: the parser returns parse_error
C11_Witness ==
    /\ op = "parsed"
    /\ arg = ExportBadPerf
    /\ DOMAIN ret = {"parse_error"}

\* the post URL of a holds a form with at least 10 digits
PostUrlHasId(a) ==
    \E p \in {a.p1, a.p2} :
        p.form \in {"urn:li:activity:", "activity-"} /\ p.n >= ActivityIdLen

\* C21: when the analytics URL is not empty and holds no activity identifier
\* while the post URL holds one, the identifier is the one of the post URL
C21_PostUrlWhenAnalyticsHasNone ==
    (/\ op = "id_done"
     /\ arg.an = "https://www.linkedin.com/analytics/"
     /\ PostUrlHasId(arg)) =>
        ret = ExpectedId([arg EXCEPT !.an = ""], ActivityIdLen)

\* C22: on a page with the author header line the body starts right after
\* that line: the result holds every line of the post that follows it
C22_BodyStartsAfterHeader ==
    (op = "header_done" /\ arg.acc = 0) => ret = BodyOf(arg)

\* C23: when a later row repeats the label (trimmed, lower-cased) of the row
\* a field is resolved through, the field takes the value of the first row
\* with that label
C23_FirstDuplicateKept ==
    op = "perf_done" =>
        LET labels == NormLabels(arg.rows)
        IN  \A f \in DOMAIN Synonyms :
                LET n == MatchedRow(labels, Synonyms[f])
                IN  (n /= 0 /\ LastOfLabel(labels, n) /= n) =>
                        ret.fields[f] = ValueOf(arg.rows[n].cell)

ReazSentinel == Cell("Reazioni in evidenza")

CommSentinel == Cell("Commenti in evidenza")

\* the section open after row n of rows: that of the last sentinel row up to n
OpenSection(rows, n) ==
    LET sent == { m \in 1..n : rows[m].lab \in {ReazSentinel, CommSentinel} }
    IN  IF sent = {} THEN "none"
        ELSE LET m == CHOOSE h \in sent : \A q \in sent : q <= h
             IN  IF rows[m].lab = ReazSentinel THEN "reactions" ELSE "comments"

\* the rows among the first k that belong to section: labelled rows, no
\* sentinels, read while the section is open
SectionRows(rows, k, section) ==
    SelectSeq([ n \in 1..k |-> [n |-> n, row |-> rows[n]] ],
              LAMBDA e : /\ ~e.row.lab.na
                         /\ e.row.lab \notin {ReazSentinel, CommSentinel}
                         /\ OpenSection(rows, e.n) = section)

\* the rows of a section as the scan buffers them
Buffered(rows, k, section) ==
    LET sel == SectionRows(rows, k, section)
    IN  [ n \in 1..Len(sel) |->
            [label |-> sel[n].row.lab.s,
             val   |-> IF sel[n].row.val.na THEN "" ELSE sel[n].row.val.s] ]

\* the value of the first row of a section whose label holds the keyword and
\* whose value is not null
TopOf(rows, section, keyword) ==
    LET buf == Buffered(rows, Len(rows), section)
        hit == { n \in 1..Len(buf) :
                    /\ Contains(Lower(buf[n].label), keyword)
                    /\ buf[n].val \notin {"", "nan"} }
    IN  IF hit = {} THEN ""
        ELSE buf[CHOOSE n \in hit : \A m \in hit : n <= m].val

\* C24: at every row of the scan at most one section is open; the rows
\* buffered for a section are the labelled rows read while it was open, never
\* a sentinel row and never a row before the first sentinel; every
\* reactions_top_* and comments_top_* field is the value of the first row
\* buffered for its section whose label holds its keyword and whose value is
\* not null
C24_SectionScan ==
    op \in {"scan", "scan_done"} =>
        /\ ~(ret.st.reaz_section /\ ret.st.comm_section)
        /\ ret.st.reaz_section <=> OpenSection(arg, ret.k) = "reactions"
        /\ ret.st.comm_section <=> OpenSection(arg, ret.k) = "comments"
        /\ ret.st.reaz_rows = Buffered(arg, ret.k, "reactions")
        /\ ret.st.comm_rows = Buffered(arg, ret.k, "comments")
        /\ op = "scan_done" =>
            /\ ret.fields.reactions_top_role = TopOf(arg, "reactions", "qualifica")
            /\ ret.fields.reactions_top_location = TopOf(arg, "reactions", "localit")
            /\ ret.fields.reactions_top_industry = TopOf(arg, "reactions", "settore")
            /\ ret.fields.comments_top_role = TopOf(arg, "comments", "qualifica")
            /\ ret.fields.comments_top_location = TopOf(arg, "comments", "localit")
            /\ ret.fields.comments_top_industry = TopOf(arg, "comments", "settore")

\* a role row in the reactions section, the comments section opened after it
C24_Witness ==
    /\ op = "scan_done"
    /\ Len(arg) = 4
    /\ arg[1].lab = Cell("Qualifica principale") /\ arg[1].val = Cell("CEO")
    /\ arg[2].lab = ReazSentinel
    /\ arg[3].lab = Cell("Settore principale")
    /\ arg[4].lab = CommSentinel
    /\ ret.fields.reactions_top_industry = "IT"
    /\ ret.fields.reactions_top_role = ""
    /\ ret.fields.comments_top_industry = ""
    /\ ret.st.comm_section /\ ~ret.st.reaz_section

\* what each strategy yields on the page of a, "" when it yields nothing
StrategyUrls(a) ==
    << IF a.linkOk /\ a.href /= ""
       THEN "https://www.linkedin.com/analytics/post-summary/urn:li:activity:7111111111111/"
       ELSE "",
       IF a.url = "https://www.linkedin.com/posts/mario_dati-activity-7222222222-abcd"
       THEN "https://www.linkedin.com/analytics/post-summary/urn:li:activity:7222222222/"
       ELSE "",
       IF a.contentOk /\ a.html /= "<html></html>"
       THEN "https://www.linkedin.com/analytics/post-summary/urn:li:activity:7333333333333/"
       ELSE "",
       CASE a.post_url = UrlUgc ->
              "https://www.linkedin.com/analytics/post-summary/urn:li:ugcPost:7000000000001/"
         [] a.post_url = UrlSlug ->
              "https://www.linkedin.com/analytics/post-summary/urn:li:activity:7123456789012/"
         [] OTHER -> a.post_url >>

\* C25: the analytics URL is what the first of the four strategies that
\* yields a URL gives: the link of the page, the slug in the final URL, the
\* identifier in the HTML, the regex on the original URL; no later strategy
\* overrides it
C25_FirstStrategyWins ==
    op = "resolved" =>
        LET urlOf == StrategyUrls(arg)
            first == CHOOSE k \in 1..4 :
                        /\ urlOf[k] /= ""
                        /\ \A m \in 1..(k - 1) : urlOf[m] = ""
        IN  ret = urlOf[first]

\* a page that offers the link, the slug and the identifier in its HTML
C25_Witness ==
    /\ op = "resolved"
    /\ arg.linkOk
    /\ arg.contentOk
    /\ arg.href = LinkTarget
    /\ arg.url = "https://www.linkedin.com/posts/mario_dati-activity-7222222222-abcd"
    /\ arg.html /= "<html></html>"
    /\ ret = "https://www.linkedin.com/analytics/post-summary/urn:li:activity:7111111111111/"

\* the positions of scrape_urls inside the turn of its loop for post i
PostPositions ==
    {"visit_post", "resolve", "read_post", "goto_analytics", "read_analytics",
     "find_export", "download", "save", "parse", "append"}

\* the order of the steps of scrape_post
StepRank ==
    [ goto_post |-> 1, resolve |-> 2, read_post_text |-> 3, goto_analytics |-> 4,
      wait_export |-> 5, read_analytics_text |-> 6, find_export |-> 7,
      text_fallback |-> 8, click_export |-> 8, save_download |-> 9,
      parse_export |-> 10 ]

\* C26: the posts are processed one at a time in input order: while post i
\* is processed the records of the i-1 posts before it have been appended and
\* i-1 delays have been waited; the steps of a post are taken in the order
\* visit, text, analytics page, export click, download, parse, the visit
\* first; a batch of n URLs that was processed has waited n-1 delays
C26_OneAtATime ==
    /\ pc \in PostPositions =>
        /\ 1 <= i /\ i <= Len(urls)
        /\ Len(records) = i - 1
        /\ \A k \in 1..(i - 1) : records[k].post_url = urls[k]
        /\ delays = i - 1
    /\ \A m, n \in 1..Len(trail) :
        m < n => StepRank[trail[m].step] < StepRank[trail[n].step]
    /\ trail /= << >> => trail[1].step = "goto_post"
    /\ (pc \in PostPositions \ {"visit_post"}) => trail /= << >>
    /\ i = 0 => delays = 0
    /\ (i >= 1 /\ pc \notin PostPositions) =>
        /\ i = Len(urls)
        /\ Len(records) = Len(urls)
        /\ delays = Len(urls) - 1

\* the export of the second post is about to be parsed
C26_Witness ==
    /\ pc = "parse"
    /\ i = 2
    /\ Len(records) = 1
    /\ delays = 1
    /\ HasStep("read_post_text", "ok")
    /\ HasStep("click_export", "ok")
    /\ HasStep("save_download", "ok")

\* the footer lines of the pool
PoolFooters == { FooterLine, UploadedLine }

\* the position (1-based) of the first header line of a body, 0 without one
FirstNotice(lines) ==
    LET hs == { k \in 1..Len(lines) : lines[k] = HeaderLine }
    IN  IF hs = {} THEN 0 ELSE CHOOSE k \in hs : \A m \in hs : k <= m

\* the position of the first footer line after position from, Len + 1 without
FirstFooterAfter(lines, from) ==
    LET fs == { k \in (from + 1)..Len(lines) : lines[k] \in PoolFooters }
    IN  IF fs = {} THEN Len(lines) + 1 ELSE CHOOSE k \in fs : \A m \in fs : k <= m

\* C27: the cleaned lines are the lines after the first notice line (from the
\* first line without notice) and before the first footer line met from
\* there on, without a line of digits that immediately precedes the footer
\* and without the blank lines at the end; 0 <= header <= footer <= number of
\* lines, and the step back stays at or after the header boundary
C27_CleanedBodyBounds ==
    op = "bounds_done" =>
        LET h    == FirstNotice(arg)
            f    == FirstFooterAfter(arg, h)
            back == f <= Len(arg) /\ f - 1 > h /\ arg[f - 1] = CountLine
            top  == IF back THEN f - 2 ELSE f - 1
            kept == { k \in (h + 1)..top : \E m \in k..top : arg[m] /= "" }
        IN  /\ 0 <= ret.start_index
            /\ ret.start_index <= ret.end_index
            /\ ret.end_index <= Len(arg)
            /\ ret.start_index = h
            /\ ret.end_index = h + Cardinality(kept)
            /\ ret.cleaned_body_lines = SubSeq(arg, h + 1, h + Cardinality(kept))
            /\ h + Len(ret.cleaned_body_lines) < f
            /\ back => h + Len(ret.cleaned_body_lines) < f - 1
            /\ ret.cleaned_body_lines /= << >> =>
                ret.cleaned_body_lines[Len(ret.cleaned_body_lines)] /= ""

\* the step back over the count line and then over the blank line before it
C27_Witness ==
    /\ op = "bounds_done"
    /\ arg = << "Testo senza tag.", "", CountLine, FooterLine >>
    /\ ret.start_index = 0
    /\ ret.end_index = 1
    /\ ret.cleaned_body_lines = << "Testo senza tag." >>

\* the counters of a record
CounterNames ==
    {"impressions", "unique_views", "profile_visits", "followers_gained",
     "reactions", "comments", "reposts", "saves", "sends"}

\* scrape_post has parsed the downloaded file and the parser attached parse_error
ParseFailed ==
    /\ pc = "append"
    /\ HasStep("parse_export", "ok")
    /\ "parse_error" \in DOMAIN result

\* C28 as stated: a failed parse leaves error empty and every counter empty
C28_ParseErrorEmptyCounters ==
    ParseFailed =>
        /\ result.error = ""
        /\ \A f \in CounterNames : result[f] = ""

\* C28: a failed parse leaves error empty and the consumer writes the files of
\* the record; the counters are empty when the failure precedes the reading
\* of the performance rows, and those of the performance sheet when the
\* failure is in the demographics columns
C28_ParseErrorNotAFailure ==
    /\ ParseFailed =>
        /\ result.error = ""
        /\ download /= ExportBadDemo => \A f \in CounterNames : result[f] = ""
        /\ download = ExportBadDemo =>
            /\ result.impressions = "1.234"
            /\ result.reactions = "1,050"
    /\ \A k \in 1..Len(records) :
        ("parse_error" \in DOMAIN records[k] /\ k < gidx) =>
            /\ k \in counters_read
            /\ \E f \in files : f.record = k

\* the record of a corrupt file has been written by the consumer
C28_Witness ==
    /\ Len(records) = 1
    /\ "parse_error" \in DOMAIN records[1]
    /\ \A f \in CounterNames : records[1][f] = ""
    /\ records[1].error = ""
    /\ gidx = 2
    /\ success_count = 1

\* the steps of scrape_post from the opening of the analytics page on
AnalyticsSteps ==
    {"goto_analytics", "wait_export", "read_analytics_text", "find_export",
     "text_fallback", "click_export", "save_download", "parse_export"}

\* the fields of a record that scrape_post fills from the pages and the file
ScrapedFields ==
    DOMAIN InitialResult("") \ {"post_url", "scraped_at", "error"}

\* scrape_post met the login redirect or the page-not-found text
EarlyReturn ==
    \/ HasStep("goto_post", "login_redirect")
    \/ HasStep("read_post_text", "dead_page")

\* a record of one of the two early returns
EarlyRecord(r) == r.error \in {ErrLogin, ErrNotFound}

\* C29: on the login redirect and on the page-not-found text scrape_post
\* returns at once: no step of the analytics page is taken, no file is
\* downloaded, and every field filled from the pages or the file is "" in the
\* record, post_text included; no record holds the page-not-found sentinel
C29_EarlyReturnLeavesRecordEmpty ==
    /\ EarlyReturn =>
        /\ pc = "append"
        /\ \A n \in 1..Len(trail) : trail[n].step \notin AnalyticsSteps
        /\ download = NoFile
        /\ result.error = (IF HasStep("goto_post", "login_redirect")
                           THEN ErrLogin ELSE ErrNotFound)
        /\ DOMAIN result = DOMAIN InitialResult("")
        /\ \A f \in ScrapedFields : result[f] = ""
    /\ \A k \in 1..Len(records) :
        /\ "post_text" \in DOMAIN records[k] => records[k].post_text /= PageNotFound
        /\ EarlyRecord(records[k]) =>
            /\ DOMAIN records[k] = DOMAIN InitialResult("")
            /\ \A f \in ScrapedFields : records[k][f] = ""
    /\ result.post_text /= PageNotFound

\* the first post was redirected to the login, the second one is not found
C29_Witness ==
    /\ pc = "append"
    /\ i = 2
    /\ records[1].error = ErrLogin
    /\ HasStep("read_post_text", "dead_page")
    /\ result.error = ErrNotFound
    /\ result.post_text = ""

\* the entries of the rows of category cat among the first three of them
EntriesOfCategory(rows, cat) ==
    LET sub == SelectSeq(rows, LAMBDA r : r.cat = cat)
        top == SubSeq(sub, 1, IF Len(sub) < 3 THEN Len(sub) ELSE 3)
    IN  Join(SelectSeq([ n \in 1..Len(top) |-> top[n].part ], LAMBDA e : e /= ""),
             " | ")

\* the fields of a table of rows keep "Azienda" and "Dimensioni azienda" apart
CompanyApart(fields, rows) ==
    /\ fields.demo_company = EntriesOfCategory(rows, "Azienda")
    /\ fields.demo_company_size = EntriesOfCategory(rows, "Dimensioni azienda")
    /\ ~Contains(fields.demo_company, "11-50")
    /\ ~Contains(fields.demo_company_size, "ACME")
    /\ (\A n \in 1..Len(rows) : rows[n].cat /= "Azienda") => fields.demo_company = ""

\* C30: demo_company lists only rows whose category starts with "azienda";
\* the rows of "Dimensioni azienda" are listed in demo_company_size and never
\* in demo_company
C30_CompanyOnlyAnchored ==
    op = "demo_done" =>
        /\ CompanyApart(ret.before, arg.rows)
        /\ CompanyApart(ret.after, EditedRows(arg))

\* a table with a row of each of the two categories, the size first
C30_Witness ==
    /\ op = "demo_done"
    /\ Len(arg.rows) = 2
    /\ arg.rows[1].cat = "Dimensioni azienda"
    /\ arg.rows[2].cat = "Azienda"
    /\ arg.edit.kind = "none"
    /\ ret.before.demo_company = "ACME (27.5%)"
    /\ ret.before.demo_company_size = "11-50 (50.0%)"

====
